---- MODULE Spec2Model ----
(***************************************************************************)
(* Matomo Tag Manager Event Monitor.                                       *)
(*                                                                         *)
(* injected-script.js (the engine, page context): interception of          *)
(* window._mtm / window.dataLayer, normalisation, global deduplication,    *)
(* trigger matching, dispatch of 'matomoEventDetected'.                    *)
(* content script (the consumer): presentation deduplication, event log.   *)
(* service-worker.js (the service worker): badge counters per tab.          *)
(*                                                                         *)
(* JavaScript values are tagged records.                                   *)
(*   string            [str |-> sequence of one-character strings]         *)
(*   number / boolean  [num |-> n] / [bool |-> b]                          *)
(*   undefined / null  [undef |-> TRUE] / [null |-> TRUE]                  *)
(*   object / array    [obj |-> keys to values] / [arr |-> sequence], or   *)
(*                     [ref |-> i], the object i of the page's heap        *)
(*   Date.now()        the variable now, in milliseconds                   *)
(* The specifications share the variables: SpecDedup (dispatch gate and    *)
(* consumer), SpecMatch (trigger matcher), SpecIntercept (collections,     *)
(* wrappers, pollers, analysis timers), SpecPeriodic (the same engine over *)
(* the period of the re-interception check), SpecBacklog (entries present  *)
(* before startup), SpecDebugMode (autoEnableMTMDebugMode), SpecMalformed  *)
(* (malformed trigger conditions), SpecClear (engine and consumer with the *)
(* clear button), SpecCap (the log under a small maxEvents), SpecEvaluate  *)
(* (getVariableValue and evaluateCondition on drawn inputs), SpecSweep     *)
(* (the caches while time passes), SpecSignature (one entry delivered from *)
(* the backlog and live), SpecContainerInfo (addContainerInfoDelayed),     *)
(* SpecBadgeMessages and SpecBadge (service-worker.js: the badge counters  *)
(* and the badge text of each tab).                                        *)
(***************************************************************************)
EXTENDS Integers, Sequences, FiniteSets, TLC

VARIABLES
    now,                    \* Date.now()
    CONFIG,                 \* injected-script.js CONFIG / chrome.storage config
    globalProcessedEvents,  \* Map signature -> timestamp (engine)
    inbox,                  \* 'matomoEventDetected' notifications not yet handled
    deliveries,             \* history: calls of dispatchMatomoEventWithTimestamp
    recentEvents,           \* Map signature -> {timestamp, hadArrayIndex} (consumer)
    eventLog,               \* consumer event log
    suppressedDuplicates,   \* consumer counter
    handled,                \* history: notifications handled by the consumer, clearings
    MatomoTagManager,       \* window.MatomoTagManager (None when undefined)
    pageDataLayer,          \* window.dataLayer as the resolver reads it (None when undefined)
    href,                   \* window.location.href
    analysed,               \* history: calls of addTriggerAnalysis, of the resolver
    debugModeLog,           \* history: calls of enableDebugMode, 'mtmDebugModeEnabled' sent
    pc,                     \* "loading" until init has run at DOMContentLoaded
    heap,                   \* the page's objects (their fields, frozen or not)
    window,                 \* window._mtm and window.dataLayer
    arrays,                 \* the arrays: items and the wrappers installed on push
    native,                 \* Array.prototype.push.__intercepted
    closures,               \* lastKnownLength of each interceptor call
    timers,                 \* pending setTimeout / setInterval callbacks
    scanned,                \* initialScanCompleted
    ops,                    \* history: the operations of the page
    badgeCounters,          \* service-worker.js badgeCounters: Map tab id -> event count
    badgeText,              \* chrome.action badge text of each tab ("" when never set)
    tabQueries,             \* chrome.tabs.query calls whose callback has not run yet
    activeTab,              \* the active tab of the current window
    responses,              \* history: the messages handled by the service worker
    tabEvents               \* eventLog.length of the content script of each tab

dedupVars == <<globalProcessedEvents, inbox, deliveries>>
consumerVars == <<recentEvents, eventLog, suppressedDuplicates, handled>>

matchVars == <<MatomoTagManager, pageDataLayer, href, analysed, debugModeLog>>

interceptVars == <<pc, heap, window, arrays, native, closures, timers, scanned, ops>>

workerVars == <<badgeCounters, badgeText, tabQueries, activeTab, responses, tabEvents>>

vars == <<now, CONFIG, dedupVars, consumerVars, matchVars, interceptVars, workerVars>>

None == <<>>
Some(x) == <<x>>

\* the service worker after its start: no counter, no badge text, no query under way
InitWorker ==
    /\ badgeCounters = <<>>
    /\ badgeText = <<>>
    /\ tabQueries = <<>>
    /\ activeTab = 1
    /\ responses = <<>>
    /\ tabEvents = <<>>

\* no call of enableDebugMode yet and no 'mtmDebugModeEnabled' notification sent
NoDebugModeLog == [calls |-> <<>>, success |-> 0, error |-> 0, timeout |-> 0]

\* ---------------------------------------------------------------------------
\* Program constants
\* ---------------------------------------------------------------------------
GLOBAL_EVENTS == 1000
DUPLICATE_TIMEOUT == 2000
MAX_EVENTS == 1000

\* Date.now() when the script starts (any positive epoch time)
StartTime == 100000

\* ---------------------------------------------------------------------------
\* JavaScript values
\* ---------------------------------------------------------------------------
\* A string value is a sequence of one-character strings, so that concatenation,
\* replace(), startsWith() and String() are computed and not assumed.
Str(s) == [str |-> s]
Num(n) == [num |-> n]
Bool(b) == [bool |-> b]
Undefined == [undef |-> TRUE]
Null == [null |-> TRUE]
Obj(f) == [obj |-> f]       \* a plain object held by value (engine-created)
Arr(s) == [arr |-> s]       \* an array held by value (engine-created)
Ref(i) == [ref |-> i]       \* a page object or array, by reference into the heap

IsStr(v) == DOMAIN v = {"str"}
IsNum(v) == DOMAIN v = {"num"}
IsBool(v) == DOMAIN v = {"bool"}
IsUndef(v) == DOMAIN v = {"undef"}
IsNull(v) == DOMAIN v = {"null"}
IsObj(v) == DOMAIN v = {"obj"}
IsArr(v) == DOMAIN v = {"arr"}
IsRef(v) == DOMAIN v = {"ref"}

\* JavaScript truthiness (ToBoolean)
Truthy(v) ==
    CASE IsStr(v) -> v.str # <<>>
      [] IsNum(v) -> v.num # 0
      [] IsBool(v) -> v.bool
      [] IsUndef(v) -> FALSE
      [] IsNull(v) -> FALSE
      [] OTHER -> TRUE

\* a || b
Or(a, b) == IF Truthy(a) THEN a ELSE b

\* typeof v === 'object' && v (arrays included)
IsObjectLike(v) == IsObj(v) \/ IsArr(v) \/ IsRef(v)

\* Array.isArray(v); h is the heap
IsArray(v, h) == IsArr(v) \/ (IsRef(v) /\ h[v.ref].kind = "array")

\* own enumerable string-keyed properties of an object (not the indices of an array)
Fields(v, h) ==
    CASE IsObj(v) -> v.obj
      [] IsRef(v) -> h[v.ref].fields
      [] OTHER -> <<>>

\* v[key]
Get(v, key, h) ==
    IF key \in DOMAIN Fields(v, h) THEN Fields(v, h)[key] ELSE Undefined

Elems(v, h) ==
    CASE IsArr(v) -> v.arr
      [] IsRef(v) -> h[v.ref].elems
      [] OTHER -> <<>>

\* v[i] for an array, i counted from 0
ElemAt(v, i, h) ==
    IF i + 1 \in DOMAIN Elems(v, h) THEN Elems(v, h)[i + 1] ELSE Undefined

\* v.slice(1)
Slice1(v, h) == IF Elems(v, h) = <<>> THEN <<>> ELSE Tail(Elems(v, h))

\* obj with obj[key] = val
SetKey(f, key, val) ==
    [k \in (DOMAIN f) \cup {key} |-> IF k = key THEN val ELSE f[k]]

\* obj without the keys ks (delete obj[k])
DropKeys(f, ks) == [k \in (DOMAIN f) \ ks |-> f[k]]

\* { ...a, ...b }
Spread(a, b) == [k \in (DOMAIN a) \cup (DOMAIN b) |-> IF k \in DOMAIN b THEN b[k] ELSE a[k]]

RECURSIVE DigitsOf(_)
DigitsOf(n) ==
    LET d == <<"0", "1", "2", "3", "4", "5", "6", "7", "8", "9">>
    IN IF n < 10 THEN <<d[n + 1]>> ELSE DigitsOf(n \div 10) \o <<d[(n % 10) + 1]>>

\* String(v) for a primitive or a plain object
PrimString(v) ==
    CASE IsStr(v) -> v.str
      [] IsNum(v) -> IF v.num < 0 THEN <<"-">> \o DigitsOf(0 - v.num) ELSE DigitsOf(v.num)
      [] IsBool(v) -> IF v.bool THEN <<"t", "r", "u", "e">> ELSE <<"f", "a", "l", "s", "e">>
      [] IsNull(v) -> <<"n", "u", "l", "l">>
      [] IsUndef(v) -> <<"u", "n", "d", "e", "f", "i", "n", "e", "d">>
      [] OTHER -> <<"[", "o", "b", "j", "e", "c", "t", " ", "O", "b", "j", "e", "c", "t", "]">>

\* Array.prototype.join(',') over primitives (null and undefined give '')
RECURSIVE JoinComma(_)
JoinComma(s) ==
    IF s = <<>> THEN <<>>
    ELSE LET x == s[Len(s)]
             xs == IF IsNull(x) \/ IsUndef(x) THEN <<>> ELSE PrimString(x)
         IN IF Len(s) = 1 THEN xs ELSE JoinComma(SubSeq(s, 1, Len(s) - 1)) \o <<",">> \o xs

\* String(v)
JsString(v) == IF IsArr(v) THEN JoinComma(v.arr) ELSE PrimString(v)

\* s.startsWith(p) from position i (1-based)
MatchAt(s, p, i) ==
    /\ i + Len(p) - 1 <= Len(s)
    /\ \A j \in 1..Len(p) : s[i + j - 1] = p[j]

StartsWith(s, p) == MatchAt(s, p, 1)
EndsWith(s, p) == Len(p) <= Len(s) /\ MatchAt(s, p, Len(s) - Len(p) + 1)
Includes(s, p) == \E i \in 1..(Len(s) + 1) : MatchAt(s, p, i)

\* s.replace(p, '') : the first occurrence of p removed
RemoveFirst(s, p) ==
    IF ~Includes(s, p) THEN s
    ELSE LET i == CHOOSE i \in 1..(Len(s) + 1) :
                    MatchAt(s, p, i) /\ \A j \in 1..(i - 1) : ~MatchAt(s, p, j)
         IN SubSeq(s, 1, i - 1) \o SubSeq(s, i + Len(p), Len(s))

\* JSON.parse(JSON.stringify(v)): a deep copy by value; references are resolved
\* against the heap as it is at that moment, keys whose value is undefined are
\* dropped, the non-index properties of an array are not serialised.
RECURSIVE JsonClone(_, _)
JsonClone(v, h) ==
    CASE IsRef(v) \/ IsObj(v) \/ IsArr(v) ->
            IF IsArray(v, h)
            THEN Arr([i \in DOMAIN Elems(v, h) |->
                        IF IsUndef(Elems(v, h)[i]) THEN Null ELSE JsonClone(Elems(v, h)[i], h)])
            ELSE Obj([k \in {k \in DOMAIN Fields(v, h) : ~IsUndef(Fields(v, h)[k])} |->
                        JsonClone(Fields(v, h)[k], h)])
      [] OTHER -> v

\* string literals of the source
S_mtm == <<"_", "m", "t", "m">>
S_dataLayer == <<"d", "a", "t", "a", "L", "a", "y", "e", "r">>
S_dotPush == <<".", "p", "u", "s", "h">>
S_historical == <<" ", "(", "h", "i", "s", "t", "o", "r", "i", "c", "a", "l", ")">>
S_unknown == <<"u", "n", "k", "n", "o", "w", "n">>
S_MTMArrayEvent == <<"M", "T", "M", " ", "A", "r", "r", "a", "y", " ", "E", "v", "e", "n", "t">>
S_MTMDirectObject == <<"M", "T", "M", " ", "D", "i", "r", "e", "c", "t", " ", "O", "b", "j", "e", "c", "t">>
S_MTMDirectValue == <<"M", "T", "M", " ", "D", "i", "r", "e", "c", "t", " ", "V", "a", "l", "u", "e">>
S_UnknownMTMEvent == <<"U", "n", "k", "n", "o", "w", "n", " ", "M", "T", "M", " ", "E", "v", "e", "n", "t">>
S_MTMObjectEvent == <<"M", "T", "M", " ", "O", "b", "j", "e", "c", "t", " ", "E", "v", "e", "n", "t">>
S_Unknown == <<"U", "n", "k", "n", "o", "w", "n">>
S_initialScan == <<"i", "n", "i", "t", "i", "a", "l", "-", "s", "c", "a", "n">>
S_liveProxy == <<"l", "i", "v", "e", "-", "p", "r", "o", "x", "y">>
S_arrayRead == <<"a", "r", "r", "a", "y", "-", "r", "e", "a", "d">>
S_proxyIntercept == <<"p", "r", "o", "x", "y", "-", "i", "n", "t", "e", "r", "c", "e", "p", "t">>

\* ---------------------------------------------------------------------------
\* The page's objects
\* ---------------------------------------------------------------------------
\* A heap cell is an object or an array of the page: its own properties, its
\* elements (arrays), and whether the page froze it (Object.freeze).
Cell(kind, fields, elems, frozen) ==
    [kind |-> kind, fields |-> fields, elems |-> elems, frozen |-> frozen]

\* The objects the page may append; every value the engine reads of them is here.
\*   1  {event: 'a'}              an entry with an event name
\*   2  {foo: '1'}                an entry without event / eventName
\*   3  ['a', 'p']                an array entry
\*   4  Object.freeze({event: 'b'})
\*   5  {event: 'mtm.x'}          an MTM event for dataLayer
\*   6  {event: 'mtm.CustomEvent', 'mtm.customEventName': 'click'}
\*   7  o = {event: 'c'}; o.self = o      an entry JSON.stringify cannot serialise
\*   8  p = {event: 'c', n: '2'}; p.self = p      another one of the same event name
PageObjects ==
    <<Cell("object", [event |-> Str(<<"a">>)], <<>>, FALSE),
      Cell("object", [foo |-> Str(<<"1">>)], <<>>, FALSE),
      Cell("array", <<>>, <<Str(<<"a">>), Str(<<"p">>)>>, FALSE),
      Cell("object", [event |-> Str(<<"b">>)], <<>>, TRUE),
      Cell("object", [event |-> Str(<<"m", "t", "m", ".", "x">>)], <<>>, FALSE),
      Cell("object",
           [event |-> Str(<<"m", "t", "m", ".", "C", "u", "s", "t", "o", "m",
                            "E", "v", "e", "n", "t">>)]
           @@ ("mtm.customEventName" :> Str(<<"c", "l", "i", "c", "k">>)),
           <<>>, FALSE),
      Cell("object", [event |-> Str(<<"c">>), self |-> Ref(7)], <<>>, FALSE),
      Cell("object", [event |-> Str(<<"c">>), n |-> Str(<<"2">>), self |-> Ref(8)],
           <<>>, FALSE)>>

\* entry.__mtm_processed
IsProcessed(v, h) == Truthy(v) /\ IsObjectLike(v) /\ Truthy(Get(v, "__mtm_processed", h))

\* data.__mtm_processed = true on a heap object (the caller checks it is not frozen)
MarkProcessed(h, i) ==
    [h EXCEPT ![i].fields = SetKey(@, "__mtm_processed", Bool(TRUE))]

\* ---------------------------------------------------------------------------
\* Event Normalizer
\* ---------------------------------------------------------------------------
\* The record op is bookkeeping of the model: the page operation an event stems from.

\* createMTMEventData(objectName, data, arrayIndex)
createMTMEventData(objectName, data, arrayIndex, h) ==
    LET base == [source |-> Str(objectName \o S_dotPush),
                 rawData |-> data,
                 arrayIndex |-> arrayIndex]
    IN IF IsArray(data, h)
       THEN base @@ [eventName |-> Or(ElemAt(data, 0, h), Str(S_MTMArrayEvent)),
                     details |-> Obj([action |-> ElemAt(data, 0, h),
                                      parameters |-> Arr(Slice1(data, h))])]
       ELSE IF Truthy(data) /\ IsObjectLike(data)
       THEN base @@ [eventName |-> Or(Or(Get(data, "event", h), Get(data, "eventName", h)),
                                      Str(S_MTMDirectObject)),
                     details |-> data]
       ELSE base @@ [eventName |-> Str(S_MTMDirectValue),
                     details |-> Obj([value |-> data])]

\* the eventData built in analyzeMTMPush(objectName, method, args) for one argument
analyzeMTMPushEventData(objectName, data, h) ==
    LET base == [source |-> Str(objectName \o S_dotPush),
                 rawData |-> data,
                 arrayIndex |-> None]
    IN IF IsArray(data, h)
       THEN base @@ [eventName |-> Or(ElemAt(data, 0, h), Str(S_UnknownMTMEvent)),
                     details |-> Obj([action |-> ElemAt(data, 0, h),
                                      parameters |-> Arr(Slice1(data, h))])]
       ELSE IF Truthy(data) /\ IsObjectLike(data)
       THEN base @@ [eventName |-> Or(Or(Get(data, "event", h), Get(data, "eventName", h)),
                                      Str(S_MTMObjectEvent)),
                     details |-> data]
       ELSE base @@ [eventName |-> Str(JsString(data)),
                     details |-> Obj([value |-> data])]

\* the debugInfo object of analyzeMTMDirectPushWithTimestamp
DebugInfo(isHistorical, arrayIndex) ==
    Obj([sourceType |-> Str(IF isHistorical THEN S_initialScan ELSE S_liveProxy),
         detectionMethod |-> Str(IF isHistorical THEN S_arrayRead ELSE S_proxyIntercept),
         arrayIndex |-> IF arrayIndex = None THEN Null ELSE Num(arrayIndex[1]),
         isHistorical |-> Bool(isHistorical)])

\* the eventData built in analyzeMTMDirectPushWithTimestamp
historicalEventData(objectName, data, isHistorical, arrayIndex, h) ==
    LET base == [source |-> Str(objectName \o S_dotPush \o
                                  (IF isHistorical THEN S_historical ELSE <<>>)),
                 rawData |-> data,
                 isHistorical |-> isHistorical,
                 arrayIndex |-> arrayIndex]
        dbg == DebugInfo(isHistorical, arrayIndex)
    IN IF IsArray(data, h)
       THEN base @@ [eventName |-> Or(ElemAt(data, 0, h), Str(S_MTMArrayEvent)),
                     details |-> Obj([action |-> ElemAt(data, 0, h),
                                      parameters |-> Arr(Slice1(data, h)),
                                      _debug |-> dbg])]
       ELSE IF Truthy(data) /\ IsObjectLike(data)
       THEN base @@ [eventName |-> Or(Or(Get(data, "event", h), Get(data, "eventName", h)),
                                      Str(S_MTMDirectObject)),
                     details |-> Obj(SetKey(Fields(data, h), "_debug", dbg))]
       ELSE base @@ [eventName |-> Str(S_MTMDirectValue),
                     details |-> Obj([value |-> data, _debug |-> dbg])]

\* ---------------------------------------------------------------------------
\* Deduplication Filter (engine) and Dispatch Gate
\* ---------------------------------------------------------------------------
MetaKeys == {"__mtm_processed", "_debug", "customTimestamp"}

\* cleanEventDetails(details), on serialised details
cleanEventDetails(details) ==
    IF IsObj(details) THEN Obj(DropKeys(details.obj, MetaKeys)) ELSE details

\* the signature of isGlobalDuplicate / markEventAsProcessed; ev is serialised
GlobalSignature(ev) ==
    [eventName |-> Or(ev.eventName, Str(S_unknown)),
     source |-> IF IsStr(ev.source)
                THEN Or(Str(RemoveFirst(ev.source.str, S_historical)), Str(S_unknown))
                ELSE Str(S_unknown),
     details |-> IF Truthy(ev.details) THEN cleanEventDetails(ev.details) ELSE Null]

\* isGlobalDuplicate with the window closed at its end (timeDiff <= GLOBAL_EVENTS)
isGlobalDuplicateInclusive(cache, ev, t) ==
    LET s == GlobalSignature(ev)
    IN s \in DOMAIN cache /\ t - cache[s] <= GLOBAL_EVENTS

\* isGlobalDuplicate(eventData) at time t
isGlobalDuplicate(cache, ev, t) ==
    LET s == GlobalSignature(ev)
    IN s \in DOMAIN cache /\ t - cache[s] < GLOBAL_EVENTS

\* cleanupCache that deletes nothing
cleanupCacheOff(cache, maxAge, t) == cache

\* cleanupCache(cache, maxAge) at time t
cleanupCache(cache, maxAge, t) ==
    [k \in {k \in DOMAIN cache : ~(t - cache[k] > maxAge)} |-> cache[k]]

\* markEventAsProcessed(eventData) at time t
markEventAsProcessed(cache, ev, t) ==
    LET s == GlobalSignature(ev)
    IN cleanupCache([k \in (DOMAIN cache) \cup {s} |-> IF k = s THEN t ELSE cache[k]],
                    GLOBAL_EVENTS, t)

\* v holds a circular reference: an object of the path seen is reached again
RECURSIVE HasCycle(_, _, _)
HasCycle(v, h, seen) ==
    IF IsRef(v)
    THEN \/ v.ref \in seen
         \/ \E k \in DOMAIN Fields(v, h) : HasCycle(Fields(v, h)[k], h, seen \cup {v.ref})
         \/ \E i \in DOMAIN Elems(v, h) : HasCycle(Elems(v, h)[i], h, seen \cup {v.ref})
    ELSE IF IsObj(v) THEN \E k \in DOMAIN v.obj : HasCycle(v.obj[k], h, seen)
    ELSE IF IsArr(v) THEN \E i \in DOMAIN v.arr : HasCycle(v.arr[i], h, seen)
    ELSE FALSE

\* JSON.stringify(eventData, replacer) raises a TypeError on a circular structure
SerialisationRaises(ev, h) ==
    HasCycle(ev.details, h, {}) \/ HasCycle(ev.rawData, h, {})

\* the cleanedEventData of the catch branch; op and arrayIndex (undefined) are kept
\* for the bookkeeping of the model
MinimalDescriptor(ev) ==
    [source |-> Or(ev.source, Str(S_unknown)),
     eventName |-> Or(ev.eventName, Str(S_unknown)),
     details |-> IF IsObjectLike(ev.details) \/ IsNull(ev.details)
                 THEN Obj([serialized |-> Str(<<"t", "r", "u", "e">>)])
                 ELSE ev.details,
     arrayIndex |-> None,
     op |-> ev.op]

\* the JSON round trip of dispatchMatomoEventWithTimestamp
Serialise(ev, h) ==
    [ev EXCEPT !.eventName = JsonClone(@, h),
               !.details = JsonClone(@, h),
               !.rawData = JsonClone(@, h)]

\* dispatchMatomoEventWithTimestamp that marks a dropped duplicate as processed too
dispatchRefreshingDuplicates(st, eventData, timestamp, t, h) ==
    LET cleaned == IF SerialisationRaises(eventData, h) THEN MinimalDescriptor(eventData)
                   ELSE Serialise(eventData, h)
        call == [sig |-> GlobalSignature(cleaned), t |-> t, op |-> eventData.op,
                 hasIndex |-> eventData.arrayIndex # None,
                 historical |-> "isHistorical" \in DOMAIN eventData /\ eventData.isHistorical]
    IN IF isGlobalDuplicate(st.cache, cleaned, t)
       THEN [st EXCEPT !.cache = markEventAsProcessed(@, cleaned, t),
                       !.hist = Append(@, call @@ [emitted |-> FALSE])]
       ELSE [cache |-> markEventAsProcessed(st.cache, cleaned, t),
             out |-> Append(st.out, cleaned @@ [customTimestamp |-> timestamp]),
             hist |-> Append(st.hist, call @@ [emitted |-> TRUE])]

\* dispatchMatomoEventWithTimestamp(eventData, timestamp) at time t.  st holds the
\* cache, the notifications sent and the history of the calls; the result is st
\* after the call.  (The currentMtmArray copy attached for console display is
\* left out: nothing reads it but the console logger.)
dispatchMatomoEventWithTimestamp(st, eventData, timestamp, t, h) ==
    LET cleaned == IF SerialisationRaises(eventData, h) THEN MinimalDescriptor(eventData)
                   ELSE Serialise(eventData, h)
        call == [sig |-> GlobalSignature(cleaned), t |-> t, op |-> eventData.op,
                 hasIndex |-> eventData.arrayIndex # None,
                 historical |-> "isHistorical" \in DOMAIN eventData /\ eventData.isHistorical]
    IN IF isGlobalDuplicate(st.cache, cleaned, t)
       THEN [st EXCEPT !.hist = Append(@, call @@ [emitted |-> FALSE])]
       ELSE [cache |-> markEventAsProcessed(st.cache, cleaned, t),
             out |-> Append(st.out, cleaned @@ [customTimestamp |-> timestamp]),
             hist |-> Append(st.hist, call @@ [emitted |-> TRUE])]

\* dispatchMatomoEvent(eventData)
dispatchMatomoEvent(st, eventData, t, h) ==
    dispatchMatomoEventWithTimestamp(st, eventData, t, t, h)

DedupState == [cache |-> globalProcessedEvents, out |-> inbox, hist |-> deliveries]

SetDedupState(st) ==
    /\ globalProcessedEvents' = st.cache
    /\ inbox' = st.out
    /\ deliveries' = st.hist

\* ---------------------------------------------------------------------------
\* Consumer (content script): presentation deduplication and event log
\* ---------------------------------------------------------------------------
\* the signature of isExactDuplicate
PresentationSignature(ev) ==
    [eventName |-> ev.eventName,
     source |-> IF IsStr(ev.source) THEN Str(RemoveFirst(ev.source.str, S_historical))
                ELSE Undefined,
     details |-> IF Truthy(ev.details) THEN cleanEventDetails(ev.details) ELSE Null]

\* cleanupEventCaches() at time t
cleanupEventCaches(cache, t) ==
    [k \in {k \in DOMAIN cache : ~(t - cache[k].timestamp > DUPLICATE_TIMEOUT)} |-> cache[k]]

\* isExactDuplicate that drops a delivery of the same index presence
\* (lastHadIndex === newHasIndex)
isExactDuplicateSamePresence(cache, newEvent, t) ==
    LET eventJson == PresentationSignature(newEvent)
        newHasIndex == newEvent.arrayIndex # None
    IN IF /\ eventJson \in DOMAIN cache
          /\ t - cache[eventJson].timestamp < DUPLICATE_TIMEOUT
          /\ cache[eventJson].hadArrayIndex = newHasIndex
       THEN [dup |-> TRUE, cache |-> cache]
       ELSE [dup |-> FALSE,
             cache |-> cleanupEventCaches(
                 [k \in (DOMAIN cache) \cup {eventJson} |->
                     IF k = eventJson
                     THEN [timestamp |-> t, hadArrayIndex |-> newHasIndex]
                     ELSE cache[k]], t)]

\* isExactDuplicate(newEvent) at time t: the result and recentEvents after the call
isExactDuplicate(cache, newEvent, t) ==
    LET eventJson == PresentationSignature(newEvent)
        newHasIndex == newEvent.arrayIndex # None
    IN IF /\ eventJson \in DOMAIN cache
          /\ t - cache[eventJson].timestamp < DUPLICATE_TIMEOUT
          /\ cache[eventJson].hadArrayIndex # newHasIndex
       THEN [dup |-> TRUE, cache |-> cache]
       ELSE [dup |-> FALSE,
             cache |-> cleanupEventCaches(
                 [k \in (DOMAIN cache) \cup {eventJson} |->
                     IF k = eventJson
                     THEN [timestamp |-> t, hadArrayIndex |-> newHasIndex]
                     ELSE cache[k]], t)]

\* cleanupEventLog() that removes nothing
cleanupEventLogOff(log, maxEvents) == log

\* cleanupEventLog()
cleanupEventLog(log, maxEvents) ==
    IF Len(log) > maxEvents THEN SubSeq(log, Len(log) - maxEvents + 1, Len(log)) ELSE log

\* the log left in the order of arrival
Unsorted(log) == log

\* eventLog.sort((a, b) => new Date(a.timestamp) - new Date(b.timestamp)), a stable sort
RECURSIVE SortByTimestamp(_)
SortByTimestamp(log) ==
    IF Len(log) <= 1 THEN log
    ELSE LET front == SortByTimestamp(SubSeq(log, 1, Len(log) - 1))
             x == log[Len(log)]
             k == Cardinality({i \in 1..Len(front) : front[i].timestamp <= x.timestamp})
         IN SubSeq(front, 1, k) \o <<x>> \o SubSeq(front, k + 1, Len(front))

\* the "Enhanced event name extraction" of the listener
ConsumerEventName(detail) ==
    IF Truthy(detail.eventName) THEN detail.eventName
    ELSE IF Truthy(detail.details) /\ IsObj(detail.details)
            /\ Truthy(Get(detail.details, "event", <<>>))
         THEN Get(detail.details, "event", <<>>)
    ELSE IF Truthy(detail.rawData) /\ IsObj(detail.rawData)
            /\ Truthy(Get(detail.rawData, "event", <<>>))
         THEN Get(detail.rawData, "event", <<>>)
    ELSE IF Truthy(detail.details) /\ IsObj(detail.details)
            /\ Truthy(Get(detail.details, "type", <<>>))
         THEN Get(detail.details, "type", <<>>)
    ELSE Str(S_Unknown)

\* the eventData object the listener builds from event.detail at time t
\* (id, a random display key, is left out)
ConsumerEventData(detail, t) ==
    [k \in ((DOMAIN detail) \ {"customTimestamp"}) \cup {"timestamp"} |->
        CASE k = "timestamp" -> IF detail.customTimestamp # 0 THEN detail.customTimestamp ELSE t
          [] k = "eventName" -> ConsumerEventName(detail)
          [] OTHER -> detail[k]]

\* maxEvents = config.maxEvents || PERFORMANCE.MAX_EVENTS
MaxEventsOf(config) == IF config.maxEvents = 0 THEN MAX_EVENTS ELSE config.maxEvents

\* document.addEventListener('matomoEventDetected', ...): the storage callback
matomoEventDetected ==
    /\ inbox # <<>>
    /\ inbox' = Tail(inbox)
    /\ UNCHANGED <<now, CONFIG, globalProcessedEvents, deliveries, matchVars, workerVars, interceptVars>>
    /\ IF ~CONFIG.watchMTM /\ ~CONFIG.watchDataLayer
       THEN UNCHANGED consumerVars
       ELSE LET eventData == ConsumerEventData(Head(inbox), now)
                r == isExactDuplicate(recentEvents, eventData, now)
                seen == [sig |-> PresentationSignature(eventData),
                         hasIndex |-> eventData.arrayIndex # None,
                         op |-> eventData.op,
                         t |-> now]
            IN /\ recentEvents' = r.cache
               /\ IF r.dup
                  THEN /\ suppressedDuplicates' = suppressedDuplicates + 1
                       /\ eventLog' = eventLog
                       /\ handled' = Append(handled, seen @@ [logged |-> FALSE])
                  ELSE /\ suppressedDuplicates' = suppressedDuplicates
                       /\ eventLog' = SortByTimestamp(
                              cleanupEventLog(Append(eventLog, eventData), MaxEventsOf(CONFIG)))
                       /\ handled' = Append(handled, seen @@ [logged |-> TRUE])

\* ---------------------------------------------------------------------------
\* SpecDedup: the dispatch gate and the consumer, fed by every path that reaches
\* dispatchMatomoEventWithTimestamp for the _mtm collection
\* ---------------------------------------------------------------------------
MaxDeliveries == 3
MaxTime == 2500
TimeStep == 500
HISTORICAL_OFFSET == 5000

\* the page's objects once the engine has flagged them (a frozen one cannot be)
FlaggedObjects ==
    [i \in DOMAIN PageObjects |->
        IF PageObjects[i].frozen THEN PageObjects[i] ELSE MarkProcessed(PageObjects, i)[i]]

DedupEntries == {Ref(1), Ref(2)}

DefaultConfig(watchMTM, watchDataLayer) ==
    [watchMTM |-> watchMTM, watchDataLayer |-> watchDataLayer, maxEvents |-> MAX_EVENTS]

InitDedup ==
    /\ now = StartTime
    /\ CONFIG \in {DefaultConfig(m, d) : m \in BOOLEAN, d \in BOOLEAN}
    /\ globalProcessedEvents = <<>>
    /\ inbox = <<>>
    /\ deliveries = <<>>
    /\ recentEvents = <<>>
    /\ eventLog = <<>>
    /\ suppressedDuplicates = 0
    /\ handled = <<>>
    /\ MatomoTagManager = None
    /\ pageDataLayer = None
    /\ href = <<>>
    /\ analysed = <<>>
    /\ debugModeLog = NoDebugModeLog
    /\ InitWorker
    /\ pc = "running"
    /\ heap = PageObjects
    /\ window = [mtm |-> None, dataLayer |-> None]
    /\ arrays = <<>>
    /\ native = FALSE
    /\ closures = <<>>
    /\ timers = <<>>
    /\ scanned = TRUE
    /\ ops = <<>>

NextOp == Len(deliveries) + 1

\* the delayed task of analyzeMTMDirectPush: the entry was flagged when the task was
\* scheduled; arrayIndex is null when the caller is the setupPeriodicMonitoring wrapper
DeliverDirectPush(data, arrayIndex) ==
    /\ Len(deliveries) < MaxDeliveries
    /\ arrayIndex # None => CONFIG.watchMTM
    /\ SetDedupState(dispatchMatomoEvent(DedupState,
            createMTMEventData(S_mtm, data, arrayIndex, FlaggedObjects) @@ [op |-> NextOp],
            now, FlaggedObjects))
    /\ UNCHANGED <<now, CONFIG, consumerVars, matchVars, workerVars, interceptVars>>

\* the delayed task of analyzeMTMPush (the interceptMTMPush wrapper)
DeliverPush(data) ==
    /\ Len(deliveries) < MaxDeliveries
    /\ CONFIG.watchMTM
    /\ SetDedupState(dispatchMatomoEvent(DedupState,
            analyzeMTMPushEventData(S_mtm, data, FlaggedObjects) @@ [op |-> NextOp],
            now, FlaggedObjects))
    /\ UNCHANGED <<now, CONFIG, consumerVars, matchVars, workerVars, interceptVars>>

\* analyzeMTMDirectPushWithTimestamp called by the initial scan of monitorExistingArrays
\* for the entry at index of a backlog of length len
DeliverHistorical(data, index, len) ==
    /\ Len(deliveries) < MaxDeliveries
    /\ CONFIG.watchMTM
    /\ now = StartTime
    /\ \A i \in DOMAIN deliveries : deliveries[i].historical
    /\ SetDedupState(dispatchMatomoEventWithTimestamp(DedupState,
            historicalEventData(S_mtm, data, TRUE, Some(index), PageObjects) @@ [op |-> NextOp],
            now - (len - index) * HISTORICAL_OFFSET, now, PageObjects))
    /\ UNCHANGED <<now, CONFIG, consumerVars, matchVars, workerVars, interceptVars>>

\* time passes; the consumer's storage callbacks run long before a time step is over
AdvanceTime ==
    /\ inbox = <<>>
    /\ now + TimeStep <= StartTime + MaxTime
    /\ now' = now + TimeStep
    /\ UNCHANGED <<CONFIG, dedupVars, consumerVars, matchVars, workerVars, interceptVars>>

NextDedup ==
    \/ \E data \in DedupEntries, ai \in {None, Some(0)} : DeliverDirectPush(data, ai)
    \/ \E data \in DedupEntries : DeliverPush(data)
    \/ \E data \in DedupEntries, index \in 0..1 : DeliverHistorical(data, index, 2)
    \/ matomoEventDetected
    \/ AdvanceTime

SpecDedup == InitDedup /\ [][NextDedup]_vars

\* ---------------------------------------------------------------------------
\* Claims on SpecDedup
\* ---------------------------------------------------------------------------
SameSignaturePairs(hist) ==
    {p \in (DOMAIN hist) \X (DOMAIN hist) : p[1] < p[2] /\ hist[p[1]].sig = hist[p[2]].sig}

\* C1 as stated: of any two deliveries with the same signature that reach
\* dispatchMatomoEventWithTimestamp less than 1000 ms apart, exactly one is emitted.
C1_ExactlyOneOfEveryPair ==
    \A p \in SameSignaturePairs(deliveries) :
        deliveries[p[2]].t - deliveries[p[1]].t < GLOBAL_EVENTS
            => (deliveries[p[1]].emitted # deliveries[p[2]].emitted)

\* C1 amended: a delivery is emitted exactly when no delivery with the same signature
\* was emitted less than 1000 ms before it; so of two same-signature deliveries less
\* than 1000 ms apart at most one is emitted, and exactly one when the earlier of the
\* two is emitted.
C1_GlobalDedup ==
    /\ \A j \in DOMAIN deliveries :
          deliveries[j].emitted <=>
              ~\E i \in 1..(j - 1) :
                  /\ deliveries[i].sig = deliveries[j].sig
                  /\ deliveries[i].emitted
                  /\ deliveries[j].t - deliveries[i].t < GLOBAL_EVENTS
    /\ \A p \in SameSignaturePairs(deliveries) :
          deliveries[p[2]].t - deliveries[p[1]].t < GLOBAL_EVENTS
              => /\ ~(deliveries[p[1]].emitted /\ deliveries[p[2]].emitted)
                 /\ deliveries[p[1]].emitted => ~deliveries[p[2]].emitted

\* C1 witness: an emitted delivery followed within the window by a suppressed one of
\* the same signature, and a later one of that signature emitted once the window is over
C1_Witness ==
    \E p \in SameSignaturePairs(deliveries) :
        /\ deliveries[p[2]].t - deliveries[p[1]].t < GLOBAL_EVENTS
        /\ deliveries[p[2]].t > deliveries[p[1]].t
        /\ deliveries[p[1]].emitted
        /\ ~deliveries[p[2]].emitted
        /\ \E k \in DOMAIN deliveries :
              k > p[2] /\ deliveries[k].sig = deliveries[p[1]].sig /\ deliveries[k].emitted

InLog(op) == \E k \in DOMAIN eventLog : eventLog[k].op = op

\* C2: of two deliveries to the consumer with the same signature, one with an
\* arrayIndex and one without, less than 2000 ms apart (in either order), exactly one
\* is in the event log and the other is counted as a suppressed duplicate.
C2_PresentationDedup ==
    /\ \A p \in SameSignaturePairs(handled) :
          /\ handled[p[1]].hasIndex # handled[p[2]].hasIndex
          /\ handled[p[2]].t - handled[p[1]].t < DUPLICATE_TIMEOUT
          => /\ handled[p[1]].logged # handled[p[2]].logged
             /\ InLog(handled[p[1]].op) # InLog(handled[p[2]].op)
    /\ \A i \in DOMAIN handled : handled[i].logged <=> InLog(handled[i].op)
    /\ suppressedDuplicates = Cardinality({i \in DOMAIN handled : ~handled[i].logged})

\* C2 witness: an indexed delivery logged, an unindexed one of the same signature
\* suppressed after it, and an indexed one logged after that: both orders of the pair
C2_Witness ==
    \E i, j, k \in DOMAIN handled :
        /\ i < j /\ j < k
        /\ handled[i].sig = handled[j].sig /\ handled[j].sig = handled[k].sig
        /\ handled[i].hasIndex /\ ~handled[j].hasIndex /\ handled[k].hasIndex
        /\ handled[j].t - handled[i].t < DUPLICATE_TIMEOUT
        /\ handled[k].t - handled[j].t < DUPLICATE_TIMEOUT
        /\ handled[i].logged /\ ~handled[j].logged /\ handled[k].logged
        /\ suppressedDuplicates = 1

\* ---------------------------------------------------------------------------
\* Variable Resolver, Condition Evaluator, Trigger Matcher
\* ---------------------------------------------------------------------------
\* A DataLayer variable name is given with its split form: [key |-> "timer.time",
\* path |-> <<"timer", "time">>] stands for the string 'timer.time' and for
\* 'timer.time'.split('.').
DLName(key, path) == [key |-> key, path |-> path]

\* Object.keys(v): the indices of an array come first, as '0', '1', ...
IndexKeys == <<"0", "1", "2", "3">>
KeysOf(v, h) == {IndexKeys[i] : i \in DOMAIN Elems(v, h)} \cup DOMAIN Fields(v, h)

\* v[key] where key may be an index of an array
Prop(v, key, h) ==
    IF \E i \in DOMAIN Elems(v, h) : IndexKeys[i] = key
    THEN Elems(v, h)[CHOOSE i \in DOMAIN Elems(v, h) : IndexKeys[i] = key]
    ELSE Get(v, key, h)

\* getNestedValue(obj, path): path.split('.').reduce(...)
RECURSIVE getNestedValue(_, _, _)
getNestedValue(obj, path, h) ==
    IF path = <<>> THEN obj
    ELSE LET cur == getNestedValue(obj, SubSeq(path, 1, Len(path) - 1), h)
             key == path[Len(path)]
         IN IF Truthy(cur) /\ ~IsUndef(Prop(cur, key, h)) THEN Prop(cur, key, h) ELSE Null

\* Object.keys(src).forEach(key => if (key !== '__mtm_processed' &&
\* d[key] === undefined) d[key] = src[key])
FillMissing(d, src, h) ==
    LET keys == KeysOf(src, h) \ {"__mtm_processed"}
    IN [k \in (DOMAIN d) \cup keys |->
           IF k \in DOMAIN d /\ ~IsUndef(d[k]) THEN d[k]
           ELSE IF k \in keys THEN Prop(src, k, h)
           ELSE d[k]]

\* if (src.timer) { d.timer = src.timer; if (src.timer.time !== undefined) ... }
WithTimer(d, src, h) ==
    LET timer == Get(src, "timer", h)
    IN IF ~Truthy(timer) THEN d
       ELSE IF IsUndef(Get(timer, "time", h)) THEN SetKey(d, "timer", timer)
       ELSE SetKey(SetKey(d, "timer", timer), "timer.time", Get(timer, "time", h))

\* if (src.timer && src.timer.time !== undefined) d['timer.time'] = src.timer.time
WithTimerTime(d, src, h) ==
    LET timer == Get(src, "timer", h)
    IN IF Truthy(timer) /\ ~IsUndef(Get(timer, "time", h))
       THEN SetKey(d, "timer.time", Get(timer, "time", h)) ELSE d

\* the copy of the properties of details and the special handling of aEvent
CopyDetails(details, h) ==
    LET copied == [k \in KeysOf(details, h) \ {"__mtm_processed", "_debug"} |->
                      Prop(details, k, h)]
    IN IF Truthy(Get(details, "aEvent", h))
       THEN SetKey(copied, "aEvent", Get(details, "aEvent", h)) ELSE copied

\* the aMTMparams block
WithMTMParams(d, params, h) ==
    IF Truthy(params) /\ IsObjectLike(params)
    THEN WithTimer(FillMissing(d, params, h), params, h) ELSE d

\* the block for array-based parameters (_mtm.push(['aEvent', 'timer', {...}]))
WithArrayParameters(d, details, h) ==
    LET params == Get(details, "parameters", h)
        second == ElemAt(params, 1, h)
    IN IF /\ Get(details, "action", h) = Str(<<"a", "E", "v", "e", "n", "t">>)
          /\ Truthy(params) /\ IsArray(params, h) /\ Len(Elems(params, h)) >= 2
       THEN IF Truthy(second) /\ IsObjectLike(second)
            THEN WithTimerTime(Spread(SetKey(d, "aEvent", ElemAt(params, 0, h)),
                                      [k \in KeysOf(second, h) |-> Prop(second, k, h)]),
                               second, h)
            ELSE SetKey(d, "aEvent", ElemAt(params, 0, h))
       ELSE d

\* dataLayerData after the block on eventData.details
FromDetails(details, h) ==
    IF ~Truthy(details) THEN <<>>
    ELSE WithArrayParameters(
             WithMTMParams(WithTimer(CopyDetails(details, h), details, h),
                           Get(details, "aMTMparams", h), h),
             details, h)

\* dataLayerData after the block on eventData.rawData
FromRawData(d, raw, h) ==
    IF Truthy(raw) /\ IsObjectLike(raw)
    THEN WithTimerTime(FillMissing(d, raw, h), raw, h) ELSE d

\* extractEventInformation(eventData): the record {eventName, dataLayerData, source}
extractEventInformation(eventData, h) ==
    [eventName |-> IF Truthy(eventData.details) /\ Truthy(Get(eventData.details, "aEvent", h))
                   THEN Get(eventData.details, "aEvent", h)
                   ELSE IF Truthy(eventData.eventName) THEN eventData.eventName
                   ELSE Null,
     dataLayerData |-> FromRawData(FromDetails(eventData.details, h), eventData.rawData, h),
     source |-> Or(eventData.source, Str(<<>>))]

\* the page state the resolver reads: window.dataLayer (None when undefined), the
\* heap and window.location.href
PageView(dataLayer, h, url) == [dataLayer |-> dataLayer, heap |-> h, href |-> url]

\* the backlog search of getNestedDataLayerValue: entries i..1 of window.dataLayer
RECURSIVE BacklogLookup(_, _, _, _)
BacklogLookup(name, items, i, h) ==
    IF i = 0 THEN Null
    ELSE LET entry == items[i]
         IN IF ~Truthy(entry) THEN BacklogLookup(name, items, i - 1, h)
            ELSE IF name.key \in KeysOf(entry, h) THEN Prop(entry, name.key, h)
            ELSE IF Len(name.path) > 1 /\ ~IsNull(getNestedValue(entry, name.path, h))
                    /\ ~IsUndef(getNestedValue(entry, name.path, h))
                 THEN getNestedValue(entry, name.path, h)
            ELSE BacklogLookup(name, items, i - 1, h)

\* getNestedDataLayerValue(dataLayerName, eventInfo)
getNestedDataLayerValue(name, eventInfo, page) ==
    LET own == Obj(eventInfo.dataLayerData)
        nested == getNestedValue(own, name.path, page.heap)
    IN IF name.key \in DOMAIN eventInfo.dataLayerData THEN eventInfo.dataLayerData[name.key]
       ELSE IF Len(name.path) > 1 /\ ~IsNull(nested) /\ ~IsUndef(nested) THEN nested
       ELSE IF page.dataLayer # None
            THEN BacklogLookup(name, page.dataLayer[1].items, Len(page.dataLayer[1].items), page.heap)
       ELSE Null

\* getVariableValue(variable, eventInfo); a variable is a record, None when missing
getVariableValue(variable, eventInfo, page) ==
    IF variable = None THEN Null
    ELSE CASE variable.type = "DataLayer" ->
                LET name == IF "parameters" \in DOMAIN variable
                               /\ "dataLayerName" \in DOMAIN variable.parameters
                            THEN variable.parameters.dataLayerName ELSE None
                    value == getNestedDataLayerValue(name, eventInfo, page)
                IN IF name # None /\ ~IsNull(value) /\ ~IsUndef(value) THEN value
                   ELSE Or(variable.defaultValue, Null)
           [] variable.type = "PageUrl" -> Str(page.href)
           [] variable.type = "CustomJsFunction" -> Or(variable.defaultValue, Null)
           [] OTHER -> Or(variable.defaultValue, Null)

\* Number(v): None stands for NaN.  Strings are decimal integers with an optional
\* sign; '' is 0 (the values of the model hold no blanks, fractions or exponents).
DigitValue(c) ==
    CASE c = "0" -> 0 [] c = "1" -> 1 [] c = "2" -> 2 [] c = "3" -> 3 [] c = "4" -> 4
      [] c = "5" -> 5 [] c = "6" -> 6 [] c = "7" -> 7 [] c = "8" -> 8 [] c = "9" -> 9
      [] OTHER -> -1

RECURSIVE ParseDigits(_)
ParseDigits(s) ==
    IF s = <<>> THEN 0
    ELSE ParseDigits(SubSeq(s, 1, Len(s) - 1)) * 10 + DigitValue(s[Len(s)])

AllDigits(s) == s # <<>> /\ \A i \in DOMAIN s : DigitValue(s[i]) >= 0

ToNumber(v) ==
    CASE IsNum(v) -> Some(v.num)
      [] IsBool(v) -> Some(IF v.bool THEN 1 ELSE 0)
      [] IsNull(v) -> Some(0)
      [] IsStr(v) ->
            IF v.str = <<>> THEN Some(0)
            ELSE IF AllDigits(v.str) THEN Some(ParseDigits(v.str))
            ELSE IF Head(v.str) = "-" /\ AllDigits(Tail(v.str))
                 THEN Some(0 - ParseDigits(Tail(v.str)))
            ELSE None
      [] OTHER -> None

\* new RegExp() that accepts every pattern
RegExpAcceptsAll(p) == TRUE

\* new RegExp(expected).test(s) for the patterns of the model: a pattern holding an
\* unbalanced '(' or '[' or a leading '*' does not compile (the constructor throws);
\* any other pattern of the model is free of metacharacters and matches as a substring.
RegExpCompiles(p) ==
    /\ ~\E i \in DOMAIN p : p[i] \in {"(", "[", ")"}
    /\ ~(p # <<>> /\ Head(p) = "*")

\* the pattern of new RegExp(expectedValue): undefined gives the empty pattern
RegExpSource(expectedValue) ==
    IF IsUndef(expectedValue) THEN <<>> ELSE JsString(expectedValue)

\* the switch of evaluateCondition on the operator, over the resolved actual value
\* (a, sa: Number and String of the actual value; e, se: of the expected value;
\* re: the source of new RegExp(expectedValue))
Compare(comparison, actualValue, a, sa, e, se, re) ==
    CASE comparison = "equals" ->
            IF IsNum(actualValue) /\ e # None THEN actualValue.num = e[1] ELSE sa = se
      [] comparison = "notEquals" ->
            IF IsNum(actualValue) /\ e # None THEN actualValue.num # e[1] ELSE sa # se
      [] comparison = "contains" -> Includes(sa, se)
      [] comparison = "notContains" -> ~Includes(sa, se)
      [] comparison = "startsWith" -> StartsWith(sa, se)
      [] comparison = "endsWith" -> EndsWith(sa, se)
      [] comparison = "matchesRegex" -> RegExpCompiles(re) /\ Includes(sa, re)
      [] comparison = "greaterThan" -> a # None /\ e # None /\ a[1] > e[1]
      [] comparison = "lessThan" -> a # None /\ e # None /\ a[1] < e[1]
      [] comparison = "greaterThanOrEqualTo" -> a # None /\ e # None /\ a[1] >= e[1]
      [] comparison = "lessThanOrEqualTo" -> a # None /\ e # None /\ a[1] <= e[1]
      [] OTHER -> FALSE

\* evaluateCondition without the numeric branch of equals and notEquals
CompareAsStrings(comparison, actualValue, expectedValue) ==
    Compare(comparison, Str(JsString(actualValue)), ToNumber(actualValue),
            JsString(actualValue), ToNumber(expectedValue), JsString(expectedValue),
            RegExpSource(expectedValue))

CompareValues(comparison, actualValue, expectedValue) ==
    Compare(comparison, actualValue, ToNumber(actualValue), JsString(actualValue),
            ToNumber(expectedValue), JsString(expectedValue), RegExpSource(expectedValue))

\* evaluateCondition(condition, eventInfo)
evaluateCondition(condition, eventInfo, page) ==
    CompareValues(condition.comparison, getVariableValue(condition.actual, eventInfo, page),
                  condition.expected)

\* trigger.conditions, None when missing
ConditionsOf(trigger) ==
    IF "conditions" \in DOMAIN trigger THEN Some(trigger.conditions) ELSE None

\* the timer carve-out of doesTriggerMatch: the event is a timer tick and the trigger
\* has a condition shaped {actual: DataLayer 'aEvent', expected: 'timer'}
S_timer == <<"t", "i", "m", "e", "r">>
IsTimerEvent(eventInfo) ==
    \/ eventInfo.eventName = Str(S_timer)
    \/ ("aEvent" \in DOMAIN eventInfo.dataLayerData
            /\ eventInfo.dataLayerData["aEvent"] = Str(S_timer))

hasTimerCondition(trigger) ==
    \E i \in DOMAIN trigger.conditions :
        LET cond == trigger.conditions[i]
        IN /\ cond.actual # None
           /\ cond.actual.type = "DataLayer"
           /\ "parameters" \in DOMAIN cond.actual
           /\ "dataLayerName" \in DOMAIN cond.actual.parameters
           /\ cond.actual.parameters.dataLayerName.key = "aEvent"
           /\ cond.expected = Str(S_timer)

\* trigger.conditions.map(condition => evaluateCondition(condition, eventInfo))
ConditionResults(trigger, eventInfo, page) ==
    [i \in DOMAIN trigger.conditions |->
        evaluateCondition(trigger.conditions[i], eventInfo, page)]

\* conditionResults.every(result => result) / conditionResults.some(result => result)
Every(conditionResults) == \A i \in DOMAIN conditionResults : conditionResults[i]
SomeOf(conditionResults) == \E i \in DOMAIN conditionResults : conditionResults[i]

\* doesTriggerMatch without the guard on a missing or empty condition list
doesTriggerMatchUnguarded(trigger, eventInfo, page) ==
    IF ConditionsOf(trigger) = None THEN TRUE
    ELSE Every(ConditionResults(trigger, eventInfo, page))

\* doesTriggerMatch whose timer branch accepts any one true condition
doesTriggerMatchTimerSome(trigger, eventInfo, page) ==
    IF ConditionsOf(trigger) = None \/ Len(trigger.conditions) = 0 THEN FALSE
    ELSE IF IsTimerEvent(eventInfo) /\ hasTimerCondition(trigger)
    THEN SomeOf(ConditionResults(trigger, eventInfo, page))
    ELSE Every(ConditionResults(trigger, eventInfo, page))

\* doesTriggerMatch(trigger, eventInfo)
doesTriggerMatch(trigger, eventInfo, page) ==
    IF ConditionsOf(trigger) = None \/ Len(trigger.conditions) = 0 THEN FALSE
    ELSE IF IsTimerEvent(eventInfo) /\ hasTimerCondition(trigger)
    THEN Every(ConditionResults(trigger, eventInfo, page))
    ELSE Every(ConditionResults(trigger, eventInfo, page))

\* one element of getMatchedConditions
MatchedCondition(condition, actualValue) ==
    [comparison |-> condition.comparison,
     expected |-> condition.expected,
     actual |-> actualValue,
     matched |-> CompareValues(condition.comparison, actualValue, condition.expected)]

\* getMatchedConditions(trigger, eventInfo): actual is resolved once more by
\* getVariableValue and matched by a second evaluateCondition, over the same state
getMatchedConditions(trigger, eventInfo, page) ==
    IF ConditionsOf(trigger) = None THEN <<>>
    ELSE [i \in DOMAIN trigger.conditions |->
            MatchedCondition(trigger.conditions[i],
                             getVariableValue(trigger.conditions[i].actual, eventInfo, page))]

\* a tagObject whose time is read when the tag is visited, the clock having moved on
\* between the tags
TagObjectOwnTime(tag, trigger, currentTime) ==
    [name |-> Or(tag.name, Str(<<"U", "n", "k", "n", "o", "w", "n", " ", "T", "a", "g">>)),
     trigger |-> trigger.name,
     timestamp |-> currentTime + Len(tag.name.str)]

\* the tags a matched trigger contributes in addTriggerAnalysis; currentTime is the
\* time string taken once per event
TagObject(tag, trigger, currentTime) ==
    [name |-> Or(tag.name, Str(<<"U", "n", "k", "n", "o", "w", "n", " ", "T", "a", "g">>)),
     trigger |-> trigger.name,
     timestamp |-> currentTime]


FiredTagsOf(trigger, currentTime) ==
    IF "getReferencedTags" \in DOMAIN trigger
    THEN [i \in DOMAIN trigger.getReferencedTags |->
            TagObject(trigger.getReferencedTags[i], trigger, currentTime)]
    ELSE IF "referencedTags" \in DOMAIN trigger
    THEN LET Fires(tag) == "fireTriggerIds" \in DOMAIN tag /\ trigger.id \in tag.fireTriggerIds
             sel == SelectSeq(trigger.referencedTags, Fires)
         IN [i \in DOMAIN sel |-> TagObject(sel[i], trigger, currentTime)]
    ELSE <<>>

RECURSIVE Flatten(_)
Flatten(ss) == IF ss = <<>> THEN <<>> ELSE Head(ss) \o Flatten(Tail(ss))

\* the triggerInfo pushed for a matching trigger
TriggerInfo(trigger, eventInfo, page) ==
    [id |-> trigger.id,
     name |-> trigger.name,
     type |-> trigger.type,
     conditions |-> IF ConditionsOf(trigger) = None THEN <<>> ELSE trigger.conditions,
     matchedConditions |-> getMatchedConditions(trigger, eventInfo, page)]

\* the triggers of the container that match, in the order of the container
MatchingTriggers(container, eventInfo, page) ==
    LET Matches(trigger) == doesTriggerMatch(trigger, eventInfo, page)
    IN SelectSeq(container.triggers, Matches)

\* analysisResult after the forEach over container.triggers
Analysed(counted, matched, eventInfo, page, currentTime) ==
    [counted EXCEPT
        !.triggeredTriggers = [i \in DOMAIN matched |-> TriggerInfo(matched[i], eventInfo, page)],
        !.firedTags = Flatten([i \in DOMAIN matched |-> FiredTagsOf(matched[i], currentTime)])]

\* addTriggerAnalysis that sets hasFiredTags from the list of triggers
WithAnalysisTriggerFlags(eventData, result) ==
    eventData @@ [triggerAnalysis |-> result,
                  hasTriggeredTriggers |-> Len(result.triggeredTriggers) > 0,
                  hasFiredTags |-> Len(result.triggeredTriggers) > 0]

\* the fields addTriggerAnalysis sets on eventData
WithAnalysis(eventData, result) ==
    eventData @@ [triggerAnalysis |-> result,
                  hasTriggeredTriggers |-> Len(result.triggeredTriggers) > 0,
                  hasFiredTags |-> Len(result.firedTags) > 0]

EmptyAnalysis ==
    [triggeredTriggers |-> <<>>, firedTags |-> <<>>, debugMode |-> FALSE,
     totalTriggers |-> 0, totalTags |-> 0]

\* analysisResult after the container's counts are taken (debugMode by its truth value)
Counted(container) ==
    [EmptyAnalysis EXCEPT
        !.debugMode = "triggers" \in DOMAIN container /\ "tags" \in DOMAIN container,
        !.totalTriggers = IF "triggers" \in DOMAIN container THEN Len(container.triggers) ELSE 0,
        !.totalTags = IF "tags" \in DOMAIN container THEN Len(container.tags) ELSE 0]

\* the analysis against the container once debugMode is known to be on
AnalyseWith(eventData, container, eventInfo, page, currentTime) ==
    WithAnalysis(eventData,
                 Analysed(Counted(container), MatchingTriggers(container, eventInfo, page),
                          eventInfo, page, currentTime))

\* addTriggerAnalysis that tests container.triggers alone before analysing
addTriggerAnalysisWithoutTags(eventData, manager, page, currentTime) ==
    IF manager = None \/ manager[1].containers = <<>>
    THEN eventData @@ [triggerAnalysis |-> EmptyAnalysis]
    ELSE IF "triggers" \notin DOMAIN manager[1].containers[1]
    THEN eventData @@ [triggerAnalysis |-> Counted(manager[1].containers[1])]
    ELSE AnalyseWith(eventData, manager[1].containers[1],
                     extractEventInformation(eventData, page.heap), page, currentTime)

\* window.MatomoTagManager is None when undefined, else Some([containers |-> <<...>>]);
\* a container is a record that has or lacks the fields triggers and tags.
\* addTriggerAnalysis(eventData): eventData after the call
addTriggerAnalysis(eventData, manager, page, currentTime) ==
    IF manager = None \/ manager[1].containers = <<>>
    THEN eventData @@ [triggerAnalysis |-> EmptyAnalysis]
    ELSE IF ~Counted(manager[1].containers[1]).debugMode
    THEN eventData @@ [triggerAnalysis |-> Counted(manager[1].containers[1])]
    ELSE AnalyseWith(eventData, manager[1].containers[1],
                     extractEventInformation(eventData, page.heap), page, currentTime)

\* evaluateCondition(null, eventInfo) raises a TypeError on condition.actual;
\* doesTriggerMatch maps evaluateCondition over every condition of the trigger
HasNullCondition(trigger) ==
    /\ ConditionsOf(trigger) # None
    /\ \E i \in DOMAIN trigger.conditions : IsNull(trigger.conditions[i])

\* addTriggerAnalysis raises: the forEach over container.triggers meets a trigger
\* with a null condition, and nothing catches the TypeError of doesTriggerMatch
addTriggerAnalysisRaises(manager) ==
    /\ manager # None
    /\ manager[1].containers # <<>>
    /\ Counted(manager[1].containers[1]).debugMode
    /\ \E i \in DOMAIN manager[1].containers[1].triggers :
           HasNullCondition(manager[1].containers[1].triggers[i])

\* ---------------------------------------------------------------------------
\* SpecMatch: the trigger analysis of events against a rule container of the page
\* ---------------------------------------------------------------------------
MaxAnalysed == 1
MaxBacklog == 1

S_a == <<"a">>
S_one == <<"1">>
S_two == <<"2">>
S_x == <<"x">>
S_three == <<"3">>
S_aEvent == <<"a", "E", "v", "e", "n", "t">>
S_shop == <<"s", "h", "o", "p">>
S_home == <<"h", "o", "m", "e">>

\* entries a page appends to _mtm
MatchEntries ==
    {Obj([event |-> Str(S_a)]),
     Obj([event |-> Str(S_a), foo |-> Str(S_one)]),
     Obj([event |-> Str(S_timer), timer |-> Obj([time |-> Num(5)])]),
     Arr(<<Str(S_aEvent), Str(S_timer), Obj([foo |-> Str(S_one)])>>),
     Obj([aEvent |-> Str(S_timer), foo |-> Str(S_two)])}

\* entries a page appends to dataLayer without an event of their own
BacklogEntries == {Obj([bar |-> Str(S_x)]), Obj([foo |-> Str(S_one)])}

\* a Matomo variable of type DataLayer
DataLayerVariable(key, path) ==
    [type |-> "DataLayer", parameters |-> [dataLayerName |-> DLName(key, path)],
     defaultValue |-> Undefined]

PageUrlVariable == [type |-> "PageUrl", defaultValue |-> Undefined]

Condition(actual, comparison, expected) ==
    [actual |-> actual, comparison |-> comparison, expected |-> expected]

cEventA == Condition(DataLayerVariable("event", <<"event">>), "equals", Str(S_a))
cFooOne == Condition(DataLayerVariable("foo", <<"foo">>), "equals", Str(S_one))
cTimer == Condition(DataLayerVariable("aEvent", <<"aEvent">>), "equals", Str(S_timer))
cTime == Condition(DataLayerVariable("timer.time", <<"timer", "time">>), "greaterThan", Str(S_three))
cUrl == Condition(PageUrlVariable, "contains", Str(S_shop))
cBar == Condition(DataLayerVariable("bar", <<"bar">>), "equals", Str(S_x))

TagA == [name |-> Str(<<"t", "a", "g", "A">>), fireTriggerIds |-> {2, 3, 4}]
TagB == [name |-> Str(<<>>), fireTriggerIds |-> {3, 5, 6}]

\* a trigger of the container; conditions is left out when withConditions is FALSE,
\* hasMethod selects the getReferencedTags() method over the referencedTags list
Trigger(id, withConditions, conditions, hasMethod) ==
    LET base == [id |-> id, name |-> Str(<<"T">> \o DigitsOf(id)), type |-> "CustomEvent"]
        c == IF withConditions THEN base @@ [conditions |-> conditions] ELSE base
    IN IF hasMethod THEN c @@ [getReferencedTags |-> <<TagA>>]
       ELSE c @@ [referencedTags |-> <<TagA, TagB>>]

\* a trigger that has neither the getReferencedTags() method nor a referencedTags list
BareTrigger(id, conditions) ==
    [id |-> id, name |-> Str(<<"T">> \o DigitsOf(id)), type |-> "CustomEvent",
     conditions |-> conditions]

Container(triggers, withTags) ==
    IF withTags THEN [triggers |-> triggers, tags |-> <<TagA, TagB>>]
    ELSE [triggers |-> triggers]

ManagerPool ==
    {None,
     Some([containers |-> <<>>]),
     Some([containers |-> <<[tags |-> <<TagA>>]>>]),
     Some([containers |-> <<Container(<<Trigger(2, TRUE, <<cEventA>>, TRUE)>>, FALSE)>>]),
     Some([containers |-> <<Container(<<Trigger(0, FALSE, <<>>, TRUE),
                                        Trigger(2, TRUE, <<cEventA>>, TRUE),
                                        Trigger(3, TRUE, <<cEventA, cFooOne>>, FALSE)>>, TRUE)>>]),
     Some([containers |-> <<Container(<<Trigger(1, TRUE, <<>>, FALSE),
                                        Trigger(4, TRUE, <<cTimer, cFooOne>>, TRUE),
                                        Trigger(5, TRUE, <<cTimer, cTime>>, FALSE)>>, TRUE)>>]),
     Some([containers |-> <<Container(<<BareTrigger(2, <<cEventA>>)>>, TRUE)>>]),
     Some([containers |-> <<Container(<<Trigger(6, TRUE, <<cUrl, cBar>>, FALSE),
                                        Trigger(3, TRUE, <<cEventA, cFooOne>>, FALSE),
                                        Trigger(4, TRUE, <<cTimer, cFooOne>>, TRUE)>>, TRUE)>>])}

InitMatch ==
    /\ now = StartTime
    /\ CONFIG = DefaultConfig(TRUE, TRUE)
    /\ globalProcessedEvents = <<>>
    /\ inbox = <<>>
    /\ deliveries = <<>>
    /\ recentEvents = <<>>
    /\ eventLog = <<>>
    /\ suppressedDuplicates = 0
    /\ handled = <<>>
    /\ MatomoTagManager \in ManagerPool
    /\ pageDataLayer \in {None, Some([items |-> <<>>])}
    /\ href \in {S_shop, S_home}
    /\ analysed = <<>>
    /\ debugModeLog = NoDebugModeLog
    /\ InitWorker
    /\ pc = "running"
    /\ heap = PageObjects
    /\ window = [mtm |-> None, dataLayer |-> None]
    /\ arrays = <<>>
    /\ native = FALSE
    /\ closures = <<>>
    /\ timers = <<>>
    /\ scanned = TRUE
    /\ ops = <<>>

CurrentPage == PageView(pageDataLayer, PageObjects, href)

\* the eventData of an appended entry; direct says which analyser built it
\* (analyzeMTMDirectPush or analyzeMTMPush)
EntryEventData(data, direct) ==
    IF direct THEN createMTMEventData(S_mtm, data, Some(0), PageObjects)
    ELSE analyzeMTMPushEventData(S_mtm, data, PageObjects)

\* the delayed task of an analyser for an appended entry: addTriggerAnalysis on its
\* eventData against the page as it is now, followed by dispatchMatomoEvent
AnalyseEntry(data, direct) ==
    /\ Len(analysed) < MaxAnalysed
    /\ analysed' = Append(analysed,
            [event |-> addTriggerAnalysis(EntryEventData(data, direct), MatomoTagManager,
                                          CurrentPage, now),
             manager |-> MatomoTagManager, page |-> CurrentPage])
    /\ SetDedupState(dispatchMatomoEvent(DedupState,
            addTriggerAnalysis(EntryEventData(data, direct), MatomoTagManager,
                               CurrentPage, now) @@ [op |-> NextOp],
            now, PageObjects))
    /\ UNCHANGED <<now, CONFIG, consumerVars, MatomoTagManager, pageDataLayer, href,
                   debugModeLog, workerVars>>
    /\ UNCHANGED interceptVars

\* the page appends an entry to window.dataLayer (creating the array when missing)
PageDataLayerPush(v) ==
    /\ LET items == IF pageDataLayer = None THEN <<>> ELSE pageDataLayer[1].items
       IN /\ Len(items) < MaxBacklog
          /\ pageDataLayer' = Some([items |-> Append(items, v)])
    /\ UNCHANGED <<now, CONFIG, dedupVars, consumerVars, MatomoTagManager, href, analysed,
                   debugModeLog, workerVars>>
    /\ UNCHANGED interceptVars

\* the Matomo container script finishes loading and defines window.MatomoTagManager
ContainerLoad(m) ==
    /\ MatomoTagManager = None
    /\ m # None
    /\ MatomoTagManager' = m
    /\ UNCHANGED <<now, CONFIG, dedupVars, consumerVars, pageDataLayer, href, analysed,
                   debugModeLog, workerVars>>
    /\ UNCHANGED interceptVars


\* the triggers of the container an analysis ran against (none in the degraded state)
TriggersOf(manager) ==
    IF manager = None \/ manager[1].containers = <<>> THEN <<>>
    ELSE LET container == manager[1].containers[1]
         IN IF "triggers" \in DOMAIN container /\ "tags" \in DOMAIN container
            THEN container.triggers ELSE <<>>

Listed(trigger, r) ==
    \E i \in DOMAIN r.event.triggerAnalysis.triggeredTriggers :
        r.event.triggerAnalysis.triggeredTriggers[i].id = trigger.id

HasNoConditions(trigger) == ConditionsOf(trigger) = None \/ trigger.conditions = <<>>

EventInfoOf(r) == extractEventInformation(r.event, r.page.heap)

\* C9: a trigger whose condition list is missing or empty never matches: for every
\* analysed event doesTriggerMatch is false for it and it is not in triggeredTriggers.
C9_NoConditionsNeverMatches ==
    \A n \in DOMAIN analysed :
        LET r == analysed[n]
            triggers == TriggersOf(r.manager)
        IN \A j \in DOMAIN triggers :
              HasNoConditions(triggers[j]) =>
                  /\ ~doesTriggerMatch(triggers[j], EventInfoOf(r), r.page)
                  /\ ~Listed(triggers[j], r)

\* an analysis ran in debug mode against a container holding a trigger without
\* conditions and one with an empty list, and another trigger of it was listed
C9_Witness ==
    \E n \in DOMAIN analysed :
        LET triggers == TriggersOf(analysed[n].manager)
        IN /\ \E j \in DOMAIN triggers :
                 HasNoConditions(triggers[j]) /\ ~Listed(triggers[j], analysed[n])
           /\ \E j \in DOMAIN triggers : Listed(triggers[j], analysed[n])

AllConditionsTrue(trigger, r) ==
    \A k \in DOMAIN trigger.conditions :
        evaluateCondition(trigger.conditions[k], EventInfoOf(r), r.page)

SomeConditionTrue(trigger, r) ==
    \E k \in DOMAIN trigger.conditions :
        evaluateCondition(trigger.conditions[k], EventInfoOf(r), r.page)

\* C10: conjunctive matching: for every analysed event and every trigger with at least
\* one condition, timer events and timer-shaped triggers included, the trigger is in
\* triggeredTriggers if and only if every one of its conditions evaluates true.
C10_ConjunctiveMatching ==
    \A n \in DOMAIN analysed :
        LET r == analysed[n]
            triggers == TriggersOf(r.manager)
        IN \A j \in DOMAIN triggers :
              ~HasNoConditions(triggers[j]) =>
                  (Listed(triggers[j], r) <=> AllConditionsTrue(triggers[j], r))

\* a timer event was analysed against a trigger with a timer condition of which only
\* some conditions hold, and the trigger was not listed
C10_Witness ==
    \E n \in DOMAIN analysed :
        LET r == analysed[n]
            triggers == TriggersOf(r.manager)
        IN /\ IsTimerEvent(EventInfoOf(r))
           /\ \E j \in DOMAIN triggers :
                 /\ ~HasNoConditions(triggers[j])
                 /\ hasTimerCondition(triggers[j])
                 /\ SomeConditionTrue(triggers[j], r)
                 /\ ~AllConditionsTrue(triggers[j], r)
                 /\ ~Listed(triggers[j], r)

\* ---------------------------------------------------------------------------
\* Re-running the Trigger Matcher
\* ---------------------------------------------------------------------------
\* The arguments of the matcher and the page after doesTriggerMatch and
\* getMatchedConditions have run: map(), some() and every() leave trigger.conditions
\* as it is, and evaluateCondition, getVariableValue and getNestedDataLayerValue only
\* read eventInfo, window.dataLayer and window.location.
ContextAfterMatchShift(trigger, eventInfo, page) ==
    [trigger |-> IF HasNoConditions(trigger) THEN trigger
                 ELSE [trigger EXCEPT !.conditions = Tail(trigger.conditions)],
     eventInfo |-> eventInfo, page |-> page]

ContextAfterMatch(trigger, eventInfo, page) ==
    [trigger |-> trigger, eventInfo |-> eventInfo, page |-> page]

\* one run of the matcher on a context: the boolean of doesTriggerMatch, the list of
\* getMatchedConditions, and the context the run leaves behind
MatcherRun(ctx) ==
    [match |-> doesTriggerMatch(ctx.trigger, ctx.eventInfo, ctx.page),
     matched |-> getMatchedConditions(ctx.trigger, ctx.eventInfo, ctx.page),
     ctx |-> ContextAfterMatch(ctx.trigger, ctx.eventInfo, ctx.page)]

\* two runs in a row on every trigger of the container, the second on what the first
\* left behind
FirstRuns(triggers, eventInfo, page) ==
    [j \in DOMAIN triggers |->
        MatcherRun([trigger |-> triggers[j], eventInfo |-> eventInfo, page |-> page])]

SecondRuns(first) == [j \in DOMAIN first |-> MatcherRun(first[j].ctx)]

Reruns(first, page) == [page |-> page, first |-> first, second |-> SecondRuns(first)]

\* the matcher runs again, twice, on the context of an analysed event, against the
\* page as it is now
Rematch(n) ==
    /\ n \in DOMAIN analysed
    /\ "rerun" \notin DOMAIN analysed[n]
    /\ TriggersOf(analysed[n].manager) # <<>>
    /\ analysed' = [analysed EXCEPT ![n] = analysed[n] @@
            [rerun |-> Reruns(FirstRuns(TriggersOf(analysed[n].manager),
                                        EventInfoOf(analysed[n]), CurrentPage),
                              CurrentPage)]]
    /\ UNCHANGED <<now, CONFIG, dedupVars, consumerVars, MatomoTagManager, pageDataLayer, href,
                   debugModeLog, workerVars>>
    /\ UNCHANGED interceptVars

NextMatch ==
    \/ \E data \in MatchEntries, direct \in BOOLEAN : AnalyseEntry(data, direct)
    \/ \E v \in BacklogEntries : PageDataLayerPush(v)
    \/ \E m \in ManagerPool : ContainerLoad(m)
    \/ \E n \in 1..MaxAnalysed : Rematch(n)

SpecMatch == InitMatch /\ [][NextMatch]_vars

RecordedInfo(trigger, r) ==
    LET listed == r.event.triggerAnalysis.triggeredTriggers
    IN listed[CHOOSE i \in DOMAIN listed : listed[i].id = trigger.id]

S_MTMCustomEvent == <<"M", "T", "M", " ", "C", "u", "s", "t", "o", "m", " ", "E", "v", "e", "n", "t">>
S_MTMEvent == <<"M", "T", "M", " ", "E", "v", "e", "n", "t">>
S_mtmDot == <<"m", "t", "m", ".">>
S_mtmCustomEvent == <<"m", "t", "m", ".", "C", "u", "s", "t", "o", "m", "E", "v", "e", "n", "t">>
S_CustomEvent == <<"C", "u", "s", "t", "o", "m", "E", "v", "e", "n", "t">>

\* the eventName / details of createDataLayerEventData and of
\* analyzeMTMDataLayerEventWithTimestamp; extra holds the _debug entry of the latter
DataLayerNameAndDetails(data, extra, h) ==
    LET event == Get(data, "event", h)
        own == Fields(data, h)
    IN IF event = Str(S_mtmCustomEvent) \/ Truthy(Get(data, "mtm.customEvent", h))
       THEN [eventName |-> Or(Or(Or(Get(data, "eventName", h),
                                    Get(data, "mtm.customEventName", h)), event),
                              Str(S_MTMCustomEvent)),
             details |-> Obj(Spread(Spread([eventCategory |-> Get(data, "eventCategory", h),
                                            eventAction |-> Get(data, "eventAction", h),
                                            eventLabel |-> Get(data, "eventLabel", h),
                                            eventValue |-> Get(data, "eventValue", h),
                                            customEventName |-> Get(data, "mtm.customEventName", h)],
                                           own), extra))]
       ELSE IF Truthy(event) /\ IsStr(event) /\ StartsWith(event.str, S_mtmDot)
       THEN [eventName |-> event, details |-> Obj(Spread(own, extra))]
       ELSE [eventName |-> Or(Or(Or(event, Get(data, "eventName", h)), Get(data, "type", h)),
                              Str(S_MTMEvent)),
             details |-> Obj(Spread(own, extra))]

\* createDataLayerEventData(data, firedTags); the entries of the model carry none of
\* the tag fields, firedTags is [] and is left out of the record
createDataLayerEventData(data, h) ==
    [source |-> Str(S_dataLayer), rawData |-> data, arrayIndex |-> None]
        @@ DataLayerNameAndDetails(data, <<>>, h)

\* the eventData built in analyzeMTMDataLayerEventWithTimestamp
historicalDataLayerEventData(data, isHistorical, h) ==
    [source |-> Str(S_dataLayer \o (IF isHistorical THEN S_historical ELSE <<>>)),
     rawData |-> data, isHistorical |-> isHistorical, arrayIndex |-> None]
        @@ DataLayerNameAndDetails(
               data,
               [_debug |-> Obj([sourceType |-> Str(IF isHistorical THEN S_initialScan
                                                     ELSE S_liveProxy),
                                detectionMethod |-> Str(IF isHistorical THEN S_arrayRead
                                                         ELSE S_proxyIntercept),
                                isHistorical |-> Bool(isHistorical)])],
               h)

\* the isMTMEvent test of analyzeMTMDataLayerEvent; evaluating it raises a TypeError
\* when data.event is truthy and no string (it has no startsWith)
EventTestRaises(data, h) ==
    Truthy(Get(data, "event", h)) /\ ~IsStr(Get(data, "event", h))

isMTMEvent(data, h) ==
    LET event == Get(data, "event", h)
    IN \/ /\ Truthy(event)
          /\ \/ StartsWith(event.str, S_mtmDot)
             \/ event = Str(S_mtm)
             \/ Includes(event.str, S_CustomEvent)
             \/ Truthy(Get(data, "mtm.customEvent", h))
       \/ "mtm" \in DOMAIN Fields(data, h)
       \/ ("aMTMts" \in DOMAIN Fields(data, h) /\ "aMTMparams" \in DOMAIN Fields(data, h))

\* JSON.parse(JSON.stringify(v)) raises a SyntaxError when JSON.stringify(v) is
\* undefined: v is undefined (a function or a symbol is no value of the model)
JsonRoundTripRaises(v) == IsUndef(v)

\* Object.isFrozen(v): an assignment to a property of v raises in strict mode
IsFrozen(v, h) == IsRef(v) /\ h[v.ref].frozen

\* v.__mtm_processed = true
SetProcessed(h, v) == IF IsRef(v) THEN MarkProcessed(h, v.ref) ELSE h

\* The engine state the interceptors work on is the record
\*   heap      the page's objects
\*   window    [mtm, dataLayer]: None, or Some(id) of an array of arrays
\*   arrays    id -> [items, wrappers]; items are [v, op] (op: the page operation the
\*             entry stems from), wrappers the functions installed on push, outermost
\*             first, each [kind, closure, intercepted]
\*   native    Array.prototype.push.__intercepted
\*   closures  id -> lastKnownLength of an interceptWindowMTM / interceptDataLayer call
\*   timers    pending setTimeout / setInterval callbacks [kind, due, closure, ev]
\*   scanned   initialScanCompleted
\*   d         the dedup state [cache, out, hist]
Timer(kind, due, closure, ev) == [kind |-> kind, due |-> due, closure |-> closure, ev |-> ev]

\* the timers are kept in the order the event loop runs them: by due time, and in
\* the order of their creation among those of one due time
AddTimer(pending, timer) ==
    LET k == Cardinality({i \in DOMAIN pending : pending[i].due <= timer.due})
    IN SubSeq(pending, 1, k) \o <<timer>> \o SubSeq(pending, k + 1, Len(pending))

ANALYSIS_DELAY == 50
ARRAY_CHECK == 200
REINTERCEPT_INTERVAL == 1000
DATALAYER_HISTORICAL_OFFSET == 3000

\* setTimeout(() => {addTriggerAnalysis; addContainerInfoDelayed; dispatchMatomoEvent}, 50)
ScheduleAnalysis(e, eventData, op, t) ==
    [e EXCEPT !.timers = AddTimer(@, Timer("task", t + ANALYSIS_DELAY, 0,
                                           eventData @@ [op |-> op]))]

\* analyzeMTMPush(objectName, 'push', [data]); never raises
analyzeMTMPush(e, data, op, t) ==
    ScheduleAnalysis(e, analyzeMTMPushEventData(S_mtm, data, e.heap), op, t)

\* analyzeMTMDirectPush(objectName, data, arrayIndex): the state after the call and
\* whether the call raised
analyzeMTMDirectPush(e, data, arrayIndex, op, t) ==
    IF IsProcessed(data, e.heap) THEN [e |-> e, raised |-> FALSE]
    ELSE LET e1 == ScheduleAnalysis(e, createMTMEventData(S_mtm, data, arrayIndex, e.heap), op, t)
         IN IF Truthy(data) /\ IsObjectLike(data)
            THEN IF IsFrozen(data, e.heap) THEN [e |-> e1, raised |-> TRUE]
                 ELSE [e |-> [e1 EXCEPT !.heap = SetProcessed(@, data)], raised |-> FALSE]
            ELSE [e |-> e1, raised |-> FALSE]

\* analyzeMTMDataLayerEvent(data); no entry of the model is an Arguments object
analyzeMTMDataLayerEvent(e, data, op, t) ==
    IF ~Truthy(data) \/ ~IsObjectLike(data) THEN [e |-> e, raised |-> FALSE]
    ELSE IF IsProcessed(data, e.heap) THEN [e |-> e, raised |-> FALSE]
    ELSE IF EventTestRaises(data, e.heap) THEN [e |-> e, raised |-> TRUE]
    ELSE IF JsonRoundTripRaises(Get(data, "event", e.heap)) THEN [e |-> e, raised |-> TRUE]
    ELSE IF isMTMEvent(data, e.heap)
    THEN LET e1 == ScheduleAnalysis(e, createDataLayerEventData(data, e.heap), op, t)
         IN IF IsFrozen(data, e.heap) THEN [e |-> e1, raised |-> TRUE]
            ELSE [e |-> [e1 EXCEPT !.heap = SetProcessed(@, data)], raised |-> FALSE]
    ELSE [e |-> e, raised |-> FALSE]

\* one call of array.push(data): the wrappers ws from the outermost to the native
\* push.  A wrapper that raises ends the call: the wrappers below it and the native
\* push do not run.
RECURSIVE CallPush(_, _, _, _, _, _)
CallPush(e, a, ws, data, op, t) ==
    IF ws = <<>>
    THEN [e |-> [e EXCEPT !.arrays[a].items = Append(@, [v |-> data, op |-> op])],
          raised |-> FALSE]
    ELSE LET w == Head(ws)
             own == CASE w.kind = "interceptMTMPush" ->
                            [e |-> analyzeMTMPush(e, data, op, t), raised |-> FALSE]
                      [] w.kind = "interceptWindowMTM" ->
                            IF IsProcessed(data, e.heap) THEN [e |-> e, raised |-> FALSE]
                            ELSE analyzeMTMDirectPush(e, data, Some(e.closures[w.closure]), op, t)
                      [] w.kind = "setupPeriodicMonitoring" ->
                            analyzeMTMDirectPush(e, data, None, op, t)
                      [] w.kind = "interceptDataLayer" ->
                            IF IsProcessed(data, e.heap) THEN [e |-> e, raised |-> FALSE]
                            ELSE analyzeMTMDataLayerEvent(e, data, op, t)
         IN IF own.raised THEN own
            ELSE LET inner == CallPush(own.e, a, Tail(ws), data, op, t)
                 IN IF inner.raised THEN inner
                    ELSE IF w.kind \in {"interceptWindowMTM", "interceptDataLayer"}
                    THEN [e |-> [inner.e EXCEPT !.closures[w.closure] =
                                                    Len(inner.e.arrays[a].items)],
                          raised |-> FALSE]
                    ELSE inner

\* window.dataLayer as the variable resolver reads it
PageOf(e, url) ==
    PageView(IF e.window.dataLayer = None THEN None
             ELSE LET items == e.arrays[e.window.dataLayer[1]].items
                  IN Some([items |-> [i \in DOMAIN items |-> items[i].v]]),
             e.heap, url)

\* addTriggerAnalysis left out of the analyser: the event is dispatched as it was built
DispatchUnanalysed(e, eventData, timestamp, t, manager, url) ==
    [e EXCEPT !.d = dispatchMatomoEventWithTimestamp(@, eventData, timestamp, t, e.heap)]

\* addTriggerAnalysis and the dispatch that follows it at the end of every analyser;
\* an exception of addTriggerAnalysis ends the callback before the dispatch.
\* (addContainerInfo / addContainerInfoDelayed attach container metadata that no
\* signature and no gate reads; they are left out.)
AnalyseAndDispatch(e, eventData, timestamp, t, manager, url) ==
    IF addTriggerAnalysisRaises(manager) THEN e
    ELSE LET analysedEvent == addTriggerAnalysis(eventData, manager, PageOf(e, url), t)
         IN [e EXCEPT !.d = dispatchMatomoEventWithTimestamp(@, analysedEvent, timestamp, t,
                                                             e.heap)]

\* entry.__mtm_processed = true after the dispatch of a scanned entry (objects only):
\* state and raised
MarkScanned(e, entry) ==
    IF Truthy(entry) /\ IsObjectLike(entry)
    THEN IF IsFrozen(entry, e.heap) THEN [e |-> e, raised |-> TRUE]
         ELSE [e |-> [e EXCEPT !.heap = SetProcessed(@, entry)], raised |-> FALSE]
    ELSE [e |-> e, raised |-> FALSE]

\* the forEach body of the _mtm scan for the unprocessed entry i (1-based)
ScanMTMEntry(e, items, i, wasInitialScan, t, manager, url) ==
    IF addTriggerAnalysisRaises(manager) THEN [e |-> e, raised |-> TRUE]
    ELSE MarkScanned(
        AnalyseAndDispatch(
            e,
            historicalEventData(S_mtm, items[i].v, wasInitialScan, Some(i - 1), e.heap)
                @@ [op |-> items[i].op],
            t - (Len(items) - (i - 1)) * HISTORICAL_OFFSET, t, manager, url),
        items[i].v)

\* the _mtm half of monitorExistingArrays from entry i on (1-based): state and raised
RECURSIVE ScanMTM(_, _, _, _, _, _)
RECURSIVE ScanMTMNext(_, _, _, _, _, _)
ScanMTM(e, i, wasInitialScan, t, manager, url) ==
    IF i > Len(e.arrays[e.window.mtm[1]].items) THEN [e |-> e, raised |-> FALSE]
    ELSE IF IsProcessed(e.arrays[e.window.mtm[1]].items[i].v, e.heap)
    THEN ScanMTM(e, i + 1, wasInitialScan, t, manager, url)
    ELSE ScanMTMNext(ScanMTMEntry(e, e.arrays[e.window.mtm[1]].items, i, wasInitialScan,
                                  t, manager, url),
                     i, wasInitialScan, t, manager, url)

ScanMTMNext(r, i, wasInitialScan, t, manager, url) ==
    IF r.raised THEN r ELSE ScanMTM(r.e, i + 1, wasInitialScan, t, manager, url)

\* the filter of monitorExistingArrays over window.dataLayer
isBacklogMTMEvent(entry, h) ==
    /\ Truthy(entry) /\ IsObjectLike(entry)
    /\ Truthy(Get(entry, "event", h))
    /\ \/ StartsWith(Get(entry, "event", h).str, S_mtmDot)
       \/ Get(entry, "event", h) = Str(S_mtm)
       \/ Includes(Get(entry, "event", h).str, S_CustomEvent)
       \/ Truthy(Get(entry, "mtm.customEvent", h))
       \/ "mtm" \in DOMAIN Fields(entry, h)

\* the forEach body of the dataLayer scan for the unprocessed entry i of mtmEvents;
\* every entry of mtmEvents is an object
ScanDataLayerEntry(e, mtmEvents, i, wasInitialScan, t, manager, url) ==
    IF addTriggerAnalysisRaises(manager) THEN [e |-> e, raised |-> TRUE]
    ELSE MarkScanned(
        AnalyseAndDispatch(
            e,
            historicalDataLayerEventData(mtmEvents[i].v, wasInitialScan, e.heap)
                @@ [op |-> mtmEvents[i].op],
            t - (Len(mtmEvents) - (i - 1)) * DATALAYER_HISTORICAL_OFFSET, t, manager, url),
        mtmEvents[i].v)

\* the dataLayer half of monitorExistingArrays over the filtered entries, from i on
RECURSIVE ScanDataLayer(_, _, _, _, _, _, _)
RECURSIVE ScanDataLayerNext(_, _, _, _, _, _, _)
ScanDataLayer(e, mtmEvents, i, wasInitialScan, t, manager, url) ==
    IF i > Len(mtmEvents) THEN [e |-> e, raised |-> FALSE]
    ELSE IF IsProcessed(mtmEvents[i].v, e.heap)
    THEN ScanDataLayer(e, mtmEvents, i + 1, wasInitialScan, t, manager, url)
    ELSE ScanDataLayerNext(ScanDataLayerEntry(e, mtmEvents, i, wasInitialScan, t, manager, url),
                           mtmEvents, i, wasInitialScan, t, manager, url)

ScanDataLayerNext(r, mtmEvents, i, wasInitialScan, t, manager, url) ==
    IF r.raised THEN r
    ELSE ScanDataLayer(r.e, mtmEvents, i + 1, wasInitialScan, t, manager, url)

\* window.dataLayer.filter(...): the filter raises on an entry whose event is truthy
\* and no string
FilterBacklog(e, items) ==
    LET Raises(item) == Truthy(item.v) /\ IsObjectLike(item.v) /\ EventTestRaises(item.v, e.heap)
        IsBacklog(item) == isBacklogMTMEvent(item.v, e.heap)
    IN IF \E i \in DOMAIN items : Raises(items[i]) THEN [raised |-> TRUE, mtmEvents |-> <<>>]
       ELSE [raised |-> FALSE, mtmEvents |-> SelectSeq(items, IsBacklog)]

ScanFiltered(e, filtered, wasInitialScan, t, manager, url) ==
    IF filtered.raised THEN [e |-> e, raised |-> TRUE]
    ELSE ScanDataLayer(e, filtered.mtmEvents, 1, wasInitialScan, t, manager, url)

\* the halves of monitorExistingArrays; r is the outcome so far
ScanMTMHalf(e, config, wasInitialScan, t, manager, url) ==
    IF config.watchMTM /\ e.window.mtm # None
    THEN ScanMTM(e, 1, wasInitialScan, t, manager, url)
    ELSE [e |-> e, raised |-> FALSE]

ScanDataLayerHalf(r, config, wasInitialScan, t, manager, url) ==
    IF r.raised THEN r
    ELSE IF config.watchDataLayer /\ r.e.window.dataLayer # None
    THEN ScanFiltered(r.e, FilterBacklog(r.e, r.e.arrays[r.e.window.dataLayer[1]].items),
                      wasInitialScan, t, manager, url)
    ELSE r

ScanCompleted(r) ==
    IF r.raised THEN r ELSE [e |-> [r.e EXCEPT !.scanned = TRUE], raised |-> FALSE]

\* monitorExistingArrays(): state and raised
monitorExistingArrays(e, config, t, manager, url) ==
    ScanCompleted(
        ScanDataLayerHalf(ScanMTMHalf(e, config, ~e.scanned, t, manager, url),
                          config, ~e.scanned, t, manager, url))

Wrapper(kind, closure, intercepted) ==
    [kind |-> kind, closure |-> closure, intercepted |-> intercepted]

\* interceptMTMPush(): of MTM_OBJECTS and MTM_METHODS the model has _mtm and push
interceptMTMPush(e) ==
    IF e.window.mtm = None THEN e
    ELSE [e EXCEPT !.arrays[e.window.mtm[1]].wrappers =
                        <<Wrapper("interceptMTMPush", 0, FALSE)>> \o @]

EmptyArray == [items |-> <<>>, wrappers |-> <<>>]

\* interceptWindowMTM()
interceptWindowMTM(e, config, t) ==
    IF ~config.watchMTM THEN e
    ELSE LET e1 == IF e.window.mtm = None
                   THEN [e EXCEPT !.arrays = Append(@, EmptyArray),
                                  !.window.mtm = Some(Len(e.arrays) + 1)]
                   ELSE e
             a == e1.window.mtm[1]
             c == Len(e1.closures) + 1
         IN [e1 EXCEPT !.closures = Append(@, Len(e1.arrays[a].items)),
                       !.arrays[a].wrappers = <<Wrapper("interceptWindowMTM", c, FALSE)>> \o @,
                       !.timers = AddTimer(@, Timer("checkArrayChanges", t + ARRAY_CHECK, c, None))]

\* interceptDataLayer()
interceptDataLayer(e, config, t) ==
    IF ~config.watchDataLayer THEN e
    ELSE LET e1 == IF e.window.dataLayer = None
                   THEN [e EXCEPT !.arrays = Append(@, EmptyArray),
                                  !.window.dataLayer = Some(Len(e.arrays) + 1)]
                   ELSE e
             a == e1.window.dataLayer[1]
             c == Len(e1.closures) + 1
         IN [e1 EXCEPT !.closures = Append(@, Len(e1.arrays[a].items)),
                       !.arrays[a].wrappers = <<Wrapper("interceptDataLayer", c, FALSE)>> \o @,
                       !.timers = AddTimer(@, Timer("checkDataLayerChanges", t + ARRAY_CHECK, c, None))]

\* setupPeriodicMonitoring(): the setInterval call
setupPeriodicMonitoring(e, t) ==
    [e EXCEPT !.timers = AddTimer(@, Timer("periodic", t + REINTERCEPT_INTERVAL, 0, None))]

\* if (CONFIG.watchMTM) { interceptMTMPush(); interceptWindowMTM(); }
InstallMTM(e, config, t) ==
    IF config.watchMTM THEN interceptWindowMTM(interceptMTMPush(e), config, t) ELSE e

\* if (CONFIG.watchDataLayer) { interceptDataLayer(); }
InstallDataLayer(e, config, t) ==
    IF config.watchDataLayer THEN interceptDataLayer(e, config, t) ELSE e

\* the interceptors init installs after the scan
InstallInterceptors(e, config, t) ==
    setupPeriodicMonitoring(InstallDataLayer(InstallMTM(e, config, t), config, t), t)

InitAfterScan(r, config, t) ==
    IF r.raised THEN r.e ELSE InstallInterceptors(r.e, config, t)

\* init().  autoEnableMTMDebugMode is left out here: it acts on
\* window.MatomoTagManager only.  An exception of monitorExistingArrays ends init.
init(e, config, t, manager, url) ==
    InitAfterScan(monitorExistingArrays(e, config, t, manager, url), config, t)

\* array.push.__intercepted: an array without a wrapper has Array.prototype.push
PushIntercepted(e, a) ==
    IF e.arrays[a].wrappers = <<>> THEN e.native ELSE e.arrays[a].wrappers[1].intercepted

\* array.push.__intercepted = true
SetPushIntercepted(e, a) ==
    IF e.arrays[a].wrappers = <<>> THEN [e EXCEPT !.native = TRUE]
    ELSE [e EXCEPT !.arrays[a].wrappers[1].intercepted = TRUE]

\* the callback of setupPeriodicMonitoring
periodicCallback(e, config, t) ==
    LET e1 == IF e.window.mtm # None /\ ~PushIntercepted(e, e.window.mtm[1])
              THEN [e EXCEPT !.arrays[e.window.mtm[1]].wrappers =
                                  <<Wrapper("setupPeriodicMonitoring", 0, TRUE)>> \o @]
              ELSE e
    IN IF e1.window.dataLayer # None /\ ~PushIntercepted(e1, e1.window.dataLayer[1])
       THEN LET e2 == interceptDataLayer(e1, config, t)
            IN SetPushIntercepted(e2, e2.window.dataLayer[1])
       ELSE e1

\* the loop of checkArrayChanges from index i (0-based) on: state and raised
RECURSIVE PollMTM(_, _, _)
PollMTM(e, i, t) ==
    LET items == e.arrays[e.window.mtm[1]].items
    IN IF i >= Len(items) THEN [e |-> e, raised |-> FALSE]
       ELSE LET entry == items[i + 1].v
            IN IF IsProcessed(entry, e.heap) THEN PollMTM(e, i + 1, t)
               ELSE LET r == analyzeMTMDirectPush(e, entry, Some(i), items[i + 1].op, t)
                    IN IF r.raised THEN r ELSE PollMTM(r.e, i + 1, t)

\* checkArrayChanges of the interceptWindowMTM call with closure c
checkArrayChanges(e, c, t) ==
    IF e.window.mtm # None /\ Len(e.arrays[e.window.mtm[1]].items) # e.closures[c]
    THEN LET r == PollMTM(e, e.closures[c], t)
         IN IF r.raised THEN r.e
            ELSE [r.e EXCEPT !.closures[c] = Len(r.e.arrays[r.e.window.mtm[1]].items)]
    ELSE e

\* the loop of checkDataLayerChanges from index i (0-based) on: state and raised
RECURSIVE PollDataLayer(_, _, _)
PollDataLayer(e, i, t) ==
    LET items == e.arrays[e.window.dataLayer[1]].items
    IN IF i >= Len(items) THEN [e |-> e, raised |-> FALSE]
       ELSE LET entry == items[i + 1].v
            IN IF IsProcessed(entry, e.heap) THEN PollDataLayer(e, i + 1, t)
               ELSE LET r == analyzeMTMDataLayerEvent(e, entry, items[i + 1].op, t)
                    IN IF r.raised THEN r
                       ELSE IF Truthy(entry) /\ IsObjectLike(entry)
                       THEN IF IsFrozen(entry, r.e.heap) THEN [e |-> r.e, raised |-> TRUE]
                            ELSE PollDataLayer([r.e EXCEPT !.heap = SetProcessed(@, entry)],
                                               i + 1, t)
                       ELSE PollDataLayer(r.e, i + 1, t)

\* checkDataLayerChanges of the interceptDataLayer call with closure c
checkDataLayerChanges(e, c, t) ==
    IF e.window.dataLayer # None /\ Len(e.arrays[e.window.dataLayer[1]].items) # e.closures[c]
    THEN LET r == PollDataLayer(e, e.closures[c], t)
         IN IF r.raised THEN r.e
            ELSE [r.e EXCEPT !.closures[c] =
                                 Len(r.e.arrays[r.e.window.dataLayer[1]].items)]
    ELSE e

\* ---------------------------------------------------------------------------
\* SpecIntercept: a page with _mtm / dataLayer, the engine's wrappers and timers
\* ---------------------------------------------------------------------------
MaxOps == 2
Horizon == 450
LongHorizon == 2200

S_s == <<"s">>

\* what the page appends to _mtm by push, to dataLayer by push, and by assignment
MtmEntries == {Ref(2), Ref(4), Ref(6), Ref(7), Ref(8), Str(S_s)}
DataLayerEntries == {Ref(5), Ref(2)}
AssignEntries == {Ref(1)}

EngineState ==
    [heap |-> heap, window |-> window, arrays |-> arrays, native |-> native,
     closures |-> closures, timers |-> timers, scanned |-> scanned, d |-> DedupState]

SetEngineState(e) ==
    /\ heap' = e.heap
    /\ window' = e.window
    /\ arrays' = e.arrays
    /\ native' = e.native
    /\ closures' = e.closures
    /\ timers' = e.timers
    /\ scanned' = e.scanned
    /\ SetDedupState(e.d)

\* the page before the engine starts: _mtm is absent, empty or holds one entry,
\* dataLayer is absent or empty
InitIntercept ==
    /\ now = StartTime
    /\ CONFIG \in {DefaultConfig(m, d) : m \in BOOLEAN, d \in BOOLEAN}
    /\ globalProcessedEvents = <<>>
    /\ inbox = <<>>
    /\ deliveries = <<>>
    /\ recentEvents = <<>>
    /\ eventLog = <<>>
    /\ suppressedDuplicates = 0
    /\ handled = <<>>
    /\ MatomoTagManager = None
    /\ pageDataLayer = None
    /\ href = <<>>
    /\ analysed = <<>>
    /\ debugModeLog = NoDebugModeLog
    /\ InitWorker
    /\ pc = "loading"
    /\ heap = PageObjects
    /\ \E mtm \in {None, Some(<<>>), Some(<<[v |-> Ref(1), op |-> 0]>>)},
          dl \in {None, Some(<<>>)} :
          /\ arrays = (IF mtm = None THEN <<>> ELSE <<[items |-> mtm[1], wrappers |-> <<>>]>>)
                      \o (IF dl = None THEN <<>> ELSE <<EmptyArray>>)
          /\ window = [mtm |-> IF mtm = None THEN None ELSE Some(1),
                       dataLayer |-> IF dl = None THEN None
                                     ELSE Some(IF mtm = None THEN 1 ELSE 2)]
    /\ native = FALSE
    /\ closures = <<>>
    /\ timers = <<>>
    /\ scanned = FALSE
    /\ ops = <<>>

\* document.addEventListener('DOMContentLoaded', init)
Startup ==
    /\ pc = "loading"
    /\ pc' = "running"
    /\ SetEngineState(init(EngineState, CONFIG, now, MatomoTagManager, href))
    /\ UNCHANGED <<now, CONFIG, consumerVars, matchVars, workerVars, ops>>

\* the message listener of handleConfigurationUpdate: CONFIG = config; init()
ConfigMessage(config) ==
    /\ Len(ops) < MaxOps
    /\ CONFIG' = config
    /\ SetEngineState(init(EngineState, config, now, MatomoTagManager, href))
    /\ ops' = Append(ops, [kind |-> "config", t |-> now])
    /\ UNCHANGED <<now, pc, consumerVars, matchVars, workerVars>>

WrapperKinds(a) == [i \in DOMAIN arrays[a].wrappers |-> arrays[a].wrappers[i].kind]

\* the record of a page operation on a collection
PageOp(kind, target, a, data, raised) ==
    [kind |-> kind, target |-> target, array |-> a, data |-> data, t |-> now,
     flagged |-> IsProcessed(data, heap), wrappers |-> WrapperKinds(a),
     watchMTM |-> CONFIG.watchMTM, watchDataLayer |-> CONFIG.watchDataLayer,
     raised |-> raised, running |-> pc = "running"]

\* the page calls _mtm.push(data)
MtmPush(data) ==
    /\ Len(ops) < MaxOps
    /\ window.mtm # None
    /\ LET a == window.mtm[1]
           r == CallPush(EngineState, a, arrays[a].wrappers, data, Len(ops) + 1, now)
       IN /\ SetEngineState(r.e)
          /\ ops' = Append(ops, PageOp("push", "mtm", a, data, r.raised))
    /\ UNCHANGED <<now, CONFIG, pc, consumerVars, matchVars, workerVars>>

\* the page calls dataLayer.push(data)
DataLayerPush(data) ==
    /\ Len(ops) < MaxOps
    /\ window.dataLayer # None
    /\ LET a == window.dataLayer[1]
           r == CallPush(EngineState, a, arrays[a].wrappers, data, Len(ops) + 1, now)
       IN /\ SetEngineState(r.e)
          /\ ops' = Append(ops, PageOp("push", "dataLayer", a, data, r.raised))
    /\ UNCHANGED <<now, CONFIG, pc, consumerVars, matchVars, workerVars>>

\* the page writes _mtm[_mtm.length] = data
MtmAssign(data) ==
    /\ Len(ops) < MaxOps
    /\ window.mtm # None
    /\ LET a == window.mtm[1]
       IN /\ arrays' = [arrays EXCEPT ![a].items = Append(@, [v |-> data, op |-> Len(ops) + 1])]
          /\ ops' = Append(ops, PageOp("assign", "mtm", a, data, FALSE))
    /\ UNCHANGED <<now, CONFIG, pc, heap, window, native, closures, timers, scanned,
                   dedupVars, consumerVars, matchVars, workerVars>>

\* the page writes window._mtm = []
MtmReplace ==
    /\ Len(ops) < MaxOps
    /\ arrays' = Append(arrays, EmptyArray)
    /\ window' = [window EXCEPT !.mtm = Some(Len(arrays) + 1)]
    /\ ops' = Append(ops, [kind |-> "replace", target |-> "mtm", array |-> Len(arrays) + 1,
                           t |-> now, running |-> pc = "running"])
    /\ UNCHANGED <<now, CONFIG, pc, heap, native, closures, timers, scanned,
                   dedupVars, consumerVars, matchVars, workerVars>>

\* the page writes window.dataLayer = []
DataLayerReplace ==
    /\ Len(ops) < MaxOps
    /\ arrays' = Append(arrays, EmptyArray)
    /\ window' = [window EXCEPT !.dataLayer = Some(Len(arrays) + 1)]
    /\ ops' = Append(ops, [kind |-> "replace", target |-> "dataLayer",
                           array |-> Len(arrays) + 1, t |-> now, running |-> pc = "running"])
    /\ UNCHANGED <<now, CONFIG, pc, heap, native, closures, timers, scanned,
                   dedupVars, consumerVars, matchVars, workerVars>>

\* the callback the event loop runs next is the first of the pending timers
IsNext(kind, horizon) ==
    /\ timers # <<>>
    /\ timers[1].kind = kind
    /\ timers[1].due <= StartTime + horizon

\* a setInterval callback is due again one period later
Rearmed(period) == AddTimer(Tail(timers), [timers[1] EXCEPT !.due = @ + period])

\* the setTimeout callback of an analyser: addTriggerAnalysis, dispatchMatomoEvent
RunAnalysisTask(horizon) ==
    /\ IsNext("task", horizon)
    /\ now' = timers[1].due
    /\ SetEngineState(AnalyseAndDispatch([EngineState EXCEPT !.timers = Tail(timers)],
                                         timers[1].ev, timers[1].due, timers[1].due,
                                         MatomoTagManager, href))
    /\ UNCHANGED <<CONFIG, pc, consumerVars, matchVars, workerVars, ops>>

CheckArrayChangesTick(horizon) ==
    /\ IsNext("checkArrayChanges", horizon)
    /\ now' = timers[1].due
    /\ SetEngineState(checkArrayChanges([EngineState EXCEPT !.timers = Rearmed(ARRAY_CHECK)],
                                        timers[1].closure, timers[1].due))
    /\ UNCHANGED <<CONFIG, pc, consumerVars, matchVars, workerVars, ops>>

CheckDataLayerChangesTick(horizon) ==
    /\ IsNext("checkDataLayerChanges", horizon)
    /\ now' = timers[1].due
    /\ SetEngineState(checkDataLayerChanges(
                          [EngineState EXCEPT !.timers = Rearmed(ARRAY_CHECK)],
                          timers[1].closure, timers[1].due))
    /\ UNCHANGED <<CONFIG, pc, consumerVars, matchVars, workerVars, ops>>

PeriodicTick(horizon) ==
    /\ IsNext("periodic", horizon)
    /\ now' = timers[1].due
    /\ SetEngineState(periodicCallback(
                          [EngineState EXCEPT !.timers = Rearmed(REINTERCEPT_INTERVAL)],
                          CONFIG, timers[1].due))
    /\ UNCHANGED <<CONFIG, pc, consumerVars, matchVars, workerVars, ops>>

Configs == {DefaultConfig(m, d) : m \in BOOLEAN, d \in BOOLEAN}

\* the operations of a page and the callbacks of the first Horizon milliseconds
NextIntercept ==
    \/ Startup
    \/ \E config \in Configs : ConfigMessage(config)
    \/ \E data \in MtmEntries : MtmPush(data)
    \/ \E data \in DataLayerEntries : DataLayerPush(data)
    \/ \E data \in AssignEntries : MtmAssign(data)
    \/ MtmReplace
    \/ DataLayerReplace
    \/ RunAnalysisTask(Horizon)
    \/ CheckArrayChangesTick(Horizon)
    \/ CheckDataLayerChangesTick(Horizon)

SpecIntercept == InitIntercept /\ [][NextIntercept]_vars

\* ---------------------------------------------------------------------------
\* SpecPeriodic: the same page over LongHorizon milliseconds, with the periodic
\* re-interception check, under a smaller choice of page operations
\* ---------------------------------------------------------------------------
LateMtmEntries == {Ref(2)}
LateDataLayerEntries == {Ref(5)}

NextPeriodic ==
    \/ Startup
    \/ \E data \in LateMtmEntries : MtmPush(data)
    \/ \E data \in LateDataLayerEntries : DataLayerPush(data)
    \/ MtmReplace
    \/ RunAnalysisTask(LongHorizon)
    \/ CheckArrayChangesTick(LongHorizon)
    \/ CheckDataLayerChangesTick(LongHorizon)
    \/ PeriodicTick(LongHorizon)

SpecPeriodic == InitIntercept /\ [][NextPeriodic]_vars

\* ---------------------------------------------------------------------------
\* The claims on the Collection Interceptor
\* ---------------------------------------------------------------------------
\* the Events emitted for the page operation k, and whether an analysis of it is
\* still waiting for its 50 ms timer
EventsOf(k) == {i \in DOMAIN deliveries : deliveries[i].op = k /\ deliveries[i].emitted}
TasksPending(k) == \E i \in DOMAIN timers : timers[i].kind = "task" /\ timers[i].ev.op = k

\* no delivery of another operation has a signature of operation k: the global
\* deduplication across operations plays no part in what k emits
OwnSignatures(k) ==
    \A i, j \in DOMAIN deliveries :
        deliveries[i].op = k /\ deliveries[j].op # k => deliveries[i].sig # deliveries[j].sig

Appended(k) ==
    \E i \in DOMAIN arrays[ops[k].array].items : arrays[ops[k].array].items[i].op = k

\* C3: every unflagged entry appended by a call of a wrapped _mtm.push while watchMTM
\* is enabled yields exactly one Event once its analyses have run, whichever wrappers
\* are installed.
C3_ExactlyOneEventPerPush ==
    \A k \in DOMAIN ops :
        (/\ ops[k].kind = "push" /\ ops[k].target = "mtm"
         /\ ops[k].running /\ ops[k].watchMTM
         /\ ops[k].wrappers # <<>>
         /\ ~ops[k].flagged /\ ~ops[k].raised
         /\ now >= ops[k].t + ANALYSIS_DELAY /\ ~TasksPending(k)
         /\ OwnSignatures(k))
        => Cardinality(EventsOf(k)) = 1

\* the entry of operation k is given to the page's arrays by no other operation
SoleEntry(k) ==
    \A j \in DOMAIN ops :
        (j # k /\ ops[j].kind \in {"push", "assign"}) => ops[j].data # ops[k].data

\* C4: every entry added to _mtm by index assignment yields exactly one Event after
\* the next checkArrayChanges tick and its analysis, also when a push on the same
\* array happens before that tick.
C4_DirectMutationReported ==
    \A k \in DOMAIN ops :
        (/\ ops[k].kind = "assign"
         /\ ops[k].running /\ ops[k].watchMTM /\ CONFIG.watchMTM
         /\ ~ops[k].flagged /\ SoleEntry(k)
         /\ window.mtm = Some(ops[k].array)
         /\ now >= ops[k].t + ARRAY_CHECK + ANALYSIS_DELAY /\ ~TasksPending(k)
         /\ OwnSignatures(k))
        => Cardinality(EventsOf(k)) = 1

\* C5: a call of a wrapped push never raises, and its entry is appended.
C5_InterceptionTransparent ==
    \A k \in DOMAIN ops :
        (ops[k].kind = "push" /\ ops[k].wrappers # <<>>)
        => (~ops[k].raised /\ Appended(k))

IsMtmSignature(sig) == sig.source = Str(S_mtm \o S_dotPush)
IsDataLayerSignature(sig) == sig.source = Str(S_dataLayer)

\* C6: no Event of _mtm is emitted while watchMTM is false and none of dataLayer
\* while watchDataLayer is false (CONFIG stays as loaded: no configuration message
\* arrives in these behaviours).
C6_ConfigurationGating ==
    \A i \in DOMAIN deliveries :
        deliveries[i].emitted =>
            /\ IsMtmSignature(deliveries[i].sig) => CONFIG.watchMTM
            /\ IsDataLayerSignature(deliveries[i].sig) => CONFIG.watchDataLayer

\* C7: when window._mtm is replaced by a fresh array after startup with watchMTM
\* enabled, a push on the new array later than one re-interception interval after
\* the replacement goes through a wrapper.
C7_ReplacedArrayRewrapped ==
    \A r, k \in DOMAIN ops :
        (/\ ops[r].kind = "replace" /\ ops[r].target = "mtm" /\ ops[r].running
         /\ ops[k].kind = "push" /\ ops[k].target = "mtm"
         /\ ops[k].array = ops[r].array
         /\ ops[k].watchMTM
         /\ ops[k].t > ops[r].t + REINTERCEPT_INTERVAL)
        => ops[k].wrappers # <<>>

\* C8: an entry that carries __mtm_processed when it is pushed produces no Event.
C8_FlaggedEntryNeverEmits ==
    \A k \in DOMAIN ops :
        (ops[k].kind = "push" /\ ops[k].flagged) => EventsOf(k) = {}

\* ---------------------------------------------------------------------------
\* Claims on the analysis result
\* ---------------------------------------------------------------------------
\* the host exposes no rule introspection: no MatomoTagManager, no container, or a
\* first container lacking triggers or tags
Degraded(manager) ==
    \/ manager = None
    \/ manager[1].containers = <<>>
    \/ "triggers" \notin DOMAIN manager[1].containers[1]
    \/ "tags" \notin DOMAIN manager[1].containers[1]

\* the notifications sent for the analysed event n
NotificationsOf(n) == {i \in DOMAIN inbox : inbox[i].op = n}

\* the delivery of n passed the gate unless the notification of an earlier delivery
\* with its signature was sent less than GLOBAL_EVENTS before
EmittedOrDuplicate(n) ==
    /\ n \in DOMAIN deliveries
    /\ deliveries[n].op = n
    /\ \/ deliveries[n].emitted /\ Cardinality(NotificationsOf(n)) = 1
       \/ /\ ~deliveries[n].emitted
          /\ \E m \in 1..(n - 1) :
                deliveries[m].emitted /\ deliveries[m].sig = deliveries[n].sig

ContainerOf(manager) == manager[1].containers[1]

\* the tags the claim C13 expects for a matched trigger: those its getReferencedTags()
\* returns when it has the accessor, else every tag of the container whose
\* fireTriggerIds holds the trigger's id
ExpectedTags(trigger, container) ==
    IF "getReferencedTags" \in DOMAIN trigger THEN trigger.getReferencedTags
    ELSE LET Fires(tag) == "fireTriggerIds" \in DOMAIN tag /\ trigger.id \in tag.fireTriggerIds
         IN SelectSeq(container.tags, Fires)

ExpectedFiredTags(r) ==
    LET container == ContainerOf(r.manager)
        IsListed(trigger) == Listed(trigger, r)
        matched == SelectSeq(container.triggers, IsListed)
    IN Flatten([i \in DOMAIN matched |->
                  [k \in DOMAIN ExpectedTags(matched[i], container) |->
                      [name |-> ExpectedTags(matched[i], container)[k].name,
                       trigger |-> matched[i].name]]])

FiredTagNames(r) ==
    [i \in DOMAIN r.event.triggerAnalysis.firedTags |->
        [name |-> r.event.triggerAnalysis.firedTags[i].name,
         trigger |-> r.event.triggerAnalysis.firedTags[i].trigger]]

\* C13: for every matched trigger firedTags holds one entry per tag its
\* getReferencedTags() returns, or, when it has no such accessor, one entry for every
\* tag of the container whose fireTriggerIds holds the trigger's id (an unnamed tag is
\* entered as 'Unknown Tag').
C13_TagCollection ==
    \A n \in DOMAIN analysed :
        ~Degraded(analysed[n].manager) =>
            /\ Len(FiredTagNames(analysed[n])) = Len(ExpectedFiredTags(analysed[n]))
            /\ \A i \in DOMAIN FiredTagNames(analysed[n]) :
                  /\ FiredTagNames(analysed[n])[i].trigger =
                        ExpectedFiredTags(analysed[n])[i].trigger
                  /\ FiredTagNames(analysed[n])[i].name =
                        Or(ExpectedFiredTags(analysed[n])[i].name,
                           Str(<<"U", "n", "k", "n", "o", "w", "n", " ", "T", "a", "g">>))

FiredTagsOfEvent(n) == analysed[n].event.triggerAnalysis.firedTags

\* C14: all firedTags entries of one Event carry the same time value, however many
\* triggers matched and however many tags each of them references.
C14_OneTimePerEvent ==
    \A n \in DOMAIN analysed :
        \A i, j \in DOMAIN FiredTagsOfEvent(n) :
            FiredTagsOfEvent(n)[i].timestamp = FiredTagsOfEvent(n)[j].timestamp

\* an Event whose firedTags hold two different tags of one trigger and a tag of
\* another trigger
C14_Witness ==
    \E n \in DOMAIN analysed :
        \E i, j, k \in DOMAIN FiredTagsOfEvent(n) :
            /\ FiredTagsOfEvent(n)[i].trigger = FiredTagsOfEvent(n)[j].trigger
            /\ FiredTagsOfEvent(n)[i].name # FiredTagsOfEvent(n)[j].name
            /\ FiredTagsOfEvent(n)[k].trigger # FiredTagsOfEvent(n)[i].trigger

\* ---------------------------------------------------------------------------
\* SpecBacklog: a page whose _mtm holds entries before the engine starts and that has
\* no dataLayer, with watchMTM enabled, over LongHorizon milliseconds
\* ---------------------------------------------------------------------------
BacklogEntry(v) == [v |-> v, op |-> 0]

\* two distinct objects; twice the same scalar; an object, a scalar and an object
Backlogs ==
    {<<BacklogEntry(Ref(1)), BacklogEntry(Ref(2))>>,
     <<BacklogEntry(Str(S_s)), BacklogEntry(Str(S_s))>>,
     <<BacklogEntry(Ref(1)), BacklogEntry(Str(S_s)), BacklogEntry(Ref(5))>>}

InitBacklog ==
    /\ now = StartTime
    /\ CONFIG = DefaultConfig(TRUE, FALSE)
    /\ globalProcessedEvents = <<>>
    /\ inbox = <<>>
    /\ deliveries = <<>>
    /\ recentEvents = <<>>
    /\ eventLog = <<>>
    /\ suppressedDuplicates = 0
    /\ handled = <<>>
    /\ MatomoTagManager = None
    /\ pageDataLayer = None
    /\ href = <<>>
    /\ analysed = <<>>
    /\ debugModeLog = NoDebugModeLog
    /\ InitWorker
    /\ pc = "loading"
    /\ heap = PageObjects
    /\ \E backlog \in Backlogs : arrays = <<[items |-> backlog, wrappers |-> <<>>]>>
    /\ window = [mtm |-> Some(1), dataLayer |-> None]
    /\ native = FALSE
    /\ closures = <<>>
    /\ timers = <<>>
    /\ scanned = FALSE
    /\ ops = <<>>

BacklogPushes == {Str(S_s)}

NextBacklog ==
    \/ Startup
    \/ \E config \in Configs : ConfigMessage(config)
    \/ \E data \in BacklogPushes : MtmPush(data)
    \/ RunAnalysisTask(LongHorizon)
    \/ CheckArrayChangesTick(LongHorizon)
    \/ CheckDataLayerChangesTick(LongHorizon)
    \/ PeriodicTick(LongHorizon)

SpecBacklog == InitBacklog /\ [][NextBacklog]_vars

\* the notifications of historical Events, in the order they were sent
IsHistoricalEvent(m) == "isHistorical" \in DOMAIN m /\ m.isHistorical
HistoricalEvents == SelectSeq(inbox, IsHistoricalEvent)

\* the entries _mtm held when the engine started: those the page put there before
StartupBacklog ==
    {i \in DOMAIN arrays[1].items :
        \/ arrays[1].items[i].op = 0
        \/ ~ops[arrays[1].items[i].op].running}

NoConfigMessage == \A k \in DOMAIN ops : ops[k].kind # "config"

\* C15: once the engine has started with watchMTM enabled, the historical Events
\* emitted are exactly one per entry that _mtm held at startup, in order, with
\* arrayIndex 0..N-1, also when entries are identical.
C15_BacklogScan ==
    (pc = "running" /\ NoConfigMessage)
    => /\ Len(HistoricalEvents) = Cardinality(StartupBacklog)
       /\ \A k \in DOMAIN HistoricalEvents : HistoricalEvents[k].arrayIndex = Some(k - 1)

\* C16: the synthetic timestamps of the historical Events increase strictly with the
\* position of their entries, and every historical Event has a timestamp strictly
\* below that of every Event emitted after it that is not historical.
C16_SyntheticTimestamps ==
    /\ \A i, j \in DOMAIN HistoricalEvents :
          HistoricalEvents[i].arrayIndex[1] < HistoricalEvents[j].arrayIndex[1]
          => HistoricalEvents[i].customTimestamp < HistoricalEvents[j].customTimestamp
    /\ \A i, j \in DOMAIN inbox :
          (i < j /\ IsHistoricalEvent(inbox[i]) /\ ~IsHistoricalEvent(inbox[j]))
          => inbox[i].customTimestamp < inbox[j].customTimestamp

\* ---------------------------------------------------------------------------
\* Claims on the name of an Event
\* ---------------------------------------------------------------------------
S_click == <<"c", "l", "i", "c", "k">>

\* the notifications sent for the page operation k
NotificationsOfOp(k) == {i \in DOMAIN inbox : inbox[i].op = k}

\* C17: a push of {event: 'mtm.CustomEvent', 'mtm.customEventName': 'click'} on the
\* watched _mtm, with no MatomoTagManager on the page, emits exactly one Event; its
\* name is 'click', its debugMode is falsy and its trigger and tag lists are empty.
C17_NameFallback ==
    \A k \in DOMAIN ops :
        (/\ ops[k].kind = "push" /\ ops[k].target = "mtm" /\ ops[k].data = Ref(6)
         /\ ops[k].running /\ ops[k].watchMTM
         /\ ops[k].wrappers # <<>>
         /\ ~ops[k].flagged /\ ~ops[k].raised
         /\ MatomoTagManager = None
         /\ now >= ops[k].t + ANALYSIS_DELAY /\ ~TasksPending(k))
        => /\ Cardinality(NotificationsOfOp(k)) = 1
           /\ \A i \in NotificationsOfOp(k) :
                 /\ ConsumerEventName(inbox[i]) = Str(S_click)
                 /\ ~inbox[i].triggerAnalysis.debugMode
                 /\ inbox[i].triggerAnalysis.triggeredTriggers = <<>>
                 /\ inbox[i].triggerAnalysis.firedTags = <<>>

\* ---------------------------------------------------------------------------
\* Debug-mode enabling (autoEnableMTMDebugMode) and SpecDebugMode
\* ---------------------------------------------------------------------------
MAX_ATTEMPTS == 20
DEBUG_RETRY_INTERVAL == 500
DebugHorizon == 11000

\* typeof window.MatomoTagManager.enableDebugMode: "absent" when the manager or the
\* function is missing, else "works" or "raises" by what a call of it does
Capability(manager) ==
    IF manager = None \/ "enableDebugMode" \notin DOMAIN manager[1] THEN "absent"
    ELSE manager[1].enableDebugMode

\* the inner function enableDebugMode() at time t: the log after the call, with the
\* 'mtmDebugModeEnabled' notification it sends, and its result
enableDebugMode(log, manager, t, timed) ==
    [log |-> [log EXCEPT
                 !.calls = Append(@, [t |-> t, timed |-> timed,
                                      success |-> Capability(manager) = "works"]),
                 !.success = IF Capability(manager) = "works" THEN @ + 1 ELSE @,
                 !.error = IF Capability(manager) = "raises" THEN @ + 1 ELSE @],
     result |-> Capability(manager) = "works"]

\* the interval of autoEnableMTMDebugMode is armed when the immediate attempt r fails
ArmRetry(e, r, t) ==
    IF r.result THEN [e |-> e, log |-> r.log]
    ELSE [e |-> [e EXCEPT !.closures = Append(@, 0),
                          !.timers = AddTimer(@, Timer("enableDebugMode",
                                                       t + DEBUG_RETRY_INTERVAL,
                                                       Len(e.closures) + 1, None))],
          log |-> r.log]

\* autoEnableMTMDebugMode(): engine state and log
autoEnableMTMDebugMode(e, log, manager, t) ==
    ArmRetry(e, enableDebugMode(log, manager, t, FALSE), t)

\* attempts > maxAttempts
RetriesExhaustedLate(attempts) == attempts > MAX_ATTEMPTS

\* attempts >= maxAttempts
RetriesExhausted(attempts) == attempts >= MAX_ATTEMPTS

\* the end of the interval callback: clearInterval and the timeout notification
EndRetry(e, r, attempts) ==
    IF r.result \/ RetriesExhausted(attempts)
    THEN [e |-> [e EXCEPT !.timers = Tail(@)],
          log |-> IF RetriesExhausted(attempts)
                  THEN [r.log EXCEPT !.timeout = @ + 1] ELSE r.log]
    ELSE [e |-> [e EXCEPT !.timers = AddTimer(Tail(@), [@[1] EXCEPT
                                                          !.due = @ + DEBUG_RETRY_INTERVAL])],
          log |-> r.log]

\* the setInterval callback of autoEnableMTMDebugMode for the closure c at time t
retryEnableDebugMode(e, log, manager, c, t) ==
    EndRetry([e EXCEPT !.closures[c] = @ + 1],
             enableDebugMode(log, manager, t, TRUE),
             e.closures[c] + 1)

DebugManagers ==
    {None,
     Some([containers |-> <<>>]),
     Some([containers |-> <<>>, enableDebugMode |-> "works"]),
     Some([containers |-> <<>>, enableDebugMode |-> "raises"])}

\* a page without _mtm and dataLayer, both switches off
InitDebugMode ==
    /\ now = StartTime
    /\ CONFIG = DefaultConfig(FALSE, FALSE)
    /\ globalProcessedEvents = <<>>
    /\ inbox = <<>>
    /\ deliveries = <<>>
    /\ recentEvents = <<>>
    /\ eventLog = <<>>
    /\ suppressedDuplicates = 0
    /\ handled = <<>>
    /\ MatomoTagManager \in DebugManagers
    /\ pageDataLayer = None
    /\ href = <<>>
    /\ analysed = <<>>
    /\ debugModeLog = NoDebugModeLog
    /\ InitWorker
    /\ pc = "loading"
    /\ heap = PageObjects
    /\ window = [mtm |-> None, dataLayer |-> None]
    /\ arrays = <<>>
    /\ native = FALSE
    /\ closures = <<>>
    /\ timers = <<>>
    /\ scanned = FALSE
    /\ ops = <<>>

SetEnabler(a) ==
    /\ SetEngineState(a.e)
    /\ debugModeLog' = a.log

\* init(): autoEnableMTMDebugMode() first, then the scan and the interceptors
InitWithDebugMode(a, config, t, manager, url) ==
    [e |-> init(a.e, config, t, manager, url), log |-> a.log]

\* document.addEventListener('DOMContentLoaded', init)
StartupDebugMode ==
    /\ pc = "loading"
    /\ pc' = "running"
    /\ SetEnabler(InitWithDebugMode(
                      autoEnableMTMDebugMode(EngineState, debugModeLog, MatomoTagManager, now),
                      CONFIG, now, MatomoTagManager, href))
    /\ UNCHANGED <<now, CONFIG, consumerVars, MatomoTagManager, pageDataLayer, href,
                   analysed, ops, workerVars>>

\* the interval callback of autoEnableMTMDebugMode
EnableDebugModeTick(horizon) ==
    /\ IsNext("enableDebugMode", horizon)
    /\ now' = timers[1].due
    /\ SetEnabler(retryEnableDebugMode(EngineState, debugModeLog, MatomoTagManager,
                                       timers[1].closure, timers[1].due))
    /\ UNCHANGED <<CONFIG, pc, consumerVars, MatomoTagManager, pageDataLayer, href,
                   analysed, ops, workerVars>>

\* the host page defines, replaces or removes window.MatomoTagManager
HostSetsManager(m) ==
    /\ m # MatomoTagManager
    /\ MatomoTagManager' = m
    /\ UNCHANGED <<now, CONFIG, dedupVars, consumerVars, pageDataLayer, href, analysed,
                   debugModeLog, workerVars>>
    /\ UNCHANGED interceptVars

NextDebugMode ==
    \/ StartupDebugMode
    \/ EnableDebugModeTick(DebugHorizon)
    \/ PeriodicTick(DebugHorizon)
    \/ \E m \in DebugManagers : HostSetsManager(m)

SpecDebugMode == InitDebugMode /\ [][NextDebugMode]_vars

RetryTimerPending == \E i \in DOMAIN timers : timers[i].kind = "enableDebugMode"

TimedAttempts == {i \in DOMAIN debugModeLog.calls : debugModeLog.calls[i].timed}

Unserialisable(i) ==
    /\ inbox[i].op \in DOMAIN ops
    /\ HasCycle(ops[inbox[i].op].data, heap, {})

CarriesAnalysis(i) == "triggerAnalysis" \in DOMAIN inbox[i]

NoComparison == "undefined"

EventVariable == DataLayerVariable("event", <<"event">>)

\* a null condition; conditions lacking actual, comparison, expected; a condition
\* whose variable lacks parameters
MalformedConditions ==
    {Null,
     Condition(None, "notEquals", Str(S_x)),
     Condition(EventVariable, NoComparison, Str(S_a)),
     Condition(EventVariable, "equals", Undefined),
     Condition([type |-> "DataLayer", defaultValue |-> Undefined], "equals", Str(S_a))}

\* one trigger whose only condition is malformed
MalformedManagers ==
    {Some([containers |-> <<Container(<<Trigger(2, TRUE, <<c>>, TRUE)>>, TRUE)>>]) :
        c \in MalformedConditions}

InitMalformed ==
    /\ now = StartTime
    /\ CONFIG = DefaultConfig(TRUE, FALSE)
    /\ globalProcessedEvents = <<>>
    /\ inbox = <<>>
    /\ deliveries = <<>>
    /\ recentEvents = <<>>
    /\ eventLog = <<>>
    /\ suppressedDuplicates = 0
    /\ handled = <<>>
    /\ MatomoTagManager \in MalformedManagers
    /\ pageDataLayer = None
    /\ href = <<>>
    /\ analysed = <<>>
    /\ debugModeLog = NoDebugModeLog
    /\ InitWorker
    /\ pc = "loading"
    /\ heap = PageObjects
    /\ \E backlog \in {<<>>, <<BacklogEntry(Ref(1))>>} :
          arrays = <<[items |-> backlog, wrappers |-> <<>>]>>
    /\ window = [mtm |-> Some(1), dataLayer |-> None]
    /\ native = FALSE
    /\ closures = <<>>
    /\ timers = <<>>
    /\ scanned = FALSE
    /\ ops = <<>>

MalformedPushes == {Ref(1), Ref(2)}

NextMalformed ==
    \/ Startup
    \/ \E data \in MalformedPushes : MtmPush(data)
    \/ RunAnalysisTask(LongHorizon)
    \/ CheckArrayChangesTick(LongHorizon)
    \/ PeriodicTick(LongHorizon)

SpecMalformed == InitMalformed /\ [][NextMalformed]_vars

TimerPending(kind) == \E i \in DOMAIN timers : timers[i].kind = kind

\* C20: with a malformed condition in the rule container, startup completes (the
\* interceptor of _mtm and the timers are installed), every unflagged entry pushed
\* through the interceptor yields an Event once its analysis has run, and no Event
\* lists the trigger of the malformed condition as matched.
C20_MalformedNeverFatal ==
    /\ pc = "running"
       => /\ TimerPending("periodic")
          /\ TimerPending("checkArrayChanges")
          /\ arrays[1].wrappers # <<>>
    /\ \A k \in DOMAIN ops :
          (/\ ops[k].kind = "push" /\ ops[k].running
           /\ ~ops[k].flagged /\ ~ops[k].raised
           /\ now >= ops[k].t + ANALYSIS_DELAY /\ ~TasksPending(k)
           /\ OwnSignatures(k))
          => EventsOf(k) # {}
    /\ \A i \in DOMAIN inbox :
          CarriesAnalysis(i) => inbox[i].triggerAnalysis.triggeredTriggers = <<>>

\* ---------------------------------------------------------------------------
\* Claims on the recovery from a serialisation failure
\* ---------------------------------------------------------------------------
\* the notification i is the minimal descriptor of the entry pushed by operation k
DescriptorOf(i, k) ==
    /\ inbox[i].op = k
    /\ inbox[i].source = Str(S_mtm \o S_dotPush)
    /\ inbox[i].eventName = Get(ops[k].data, "event", heap)
    /\ ~CarriesAnalysis(i)

\* C21: every unflagged entry that cannot be serialised, pushed through the
\* interceptor of _mtm, has an Event emitted for it once its analyses have run: the
\* minimal descriptor with the source and the event name of the entry.
C21_SerialisationRecovered ==
    \A k \in DOMAIN ops :
        (/\ ops[k].kind = "push" /\ ops[k].target = "mtm"
         /\ ops[k].running /\ ops[k].watchMTM
         /\ ops[k].wrappers # <<>>
         /\ ~ops[k].flagged /\ ~ops[k].raised
         /\ HasCycle(ops[k].data, heap, {})
         /\ now >= ops[k].t + ANALYSIS_DELAY /\ ~TasksPending(k))
        => \E i \in DOMAIN inbox : DescriptorOf(i, k)

\* ---------------------------------------------------------------------------
\* SpecClear: the engine and the consumer of one page, whose user clears the log
\* ---------------------------------------------------------------------------
ConsumerState == [log |-> eventLog, cache |-> recentEvents, suppressed |-> suppressedDuplicates]

\* clearEvents() that leaves eventLog as it is
clearEventsKeepLog(c) == [c EXCEPT !.cache = <<>>, !.suppressed = 0]

\* clearEvents(): eventLog = []; recentEvents.clear(); suppressedDuplicates = 0
clearEvents(c) == [log |-> <<>>, cache |-> <<>>, suppressed |-> 0]

\* the analysis tasks the engine has scheduled and not yet run
PendingTasks ==
    {[op |-> timers[i].ev.op, hasIndex |-> timers[i].ev.arrayIndex # None] :
        i \in {j \in DOMAIN timers : timers[j].kind = "task"}}

Cleared == \E i \in DOMAIN handled : "pending" \in DOMAIN handled[i]

\* the click on the clear button (at most once in a behaviour); handled records the
\* moment and the tasks pending then
ClearEvents ==
    /\ ~Cleared
    /\ eventLog' = clearEvents(ConsumerState).log
    /\ recentEvents' = clearEvents(ConsumerState).cache
    /\ suppressedDuplicates' = clearEvents(ConsumerState).suppressed
    /\ handled' = Append(handled, [t |-> now, pending |-> PendingTasks])
    /\ UNCHANGED <<now, CONFIG, dedupVars, matchVars, workerVars, interceptVars>>

InitClear ==
    /\ now = StartTime
    /\ CONFIG = DefaultConfig(TRUE, FALSE)
    /\ globalProcessedEvents = <<>>
    /\ inbox = <<>>
    /\ deliveries = <<>>
    /\ recentEvents = <<>>
    /\ eventLog = <<>>
    /\ suppressedDuplicates = 0
    /\ handled = <<>>
    /\ MatomoTagManager = None
    /\ pageDataLayer = None
    /\ href = <<>>
    /\ analysed = <<>>
    /\ debugModeLog = NoDebugModeLog
    /\ InitWorker
    /\ pc = "loading"
    /\ heap = PageObjects
    /\ arrays = <<EmptyArray>>
    /\ window = [mtm |-> Some(1), dataLayer |-> None]
    /\ native = FALSE
    /\ closures = <<>>
    /\ timers = <<>>
    /\ scanned = FALSE
    /\ ops = <<>>

ClearPushes == {Ref(1), Ref(2)}

NextClear ==
    \/ Startup
    \/ \E data \in ClearPushes : MtmPush(data)
    \/ RunAnalysisTask(Horizon)
    \/ CheckArrayChangesTick(Horizon)
    \/ matomoEventDetected
    \/ ClearEvents

SpecClear == InitClear /\ [][NextClear]_vars

\* the dispatch call of the task, made at or after the time t
DispatchedSince(task, t) ==
    \E i \in DOMAIN deliveries :
        /\ deliveries[i].op = task.op
        /\ deliveries[i].hasIndex = task.hasIndex
        /\ deliveries[i].t >= t

\* the notification in the inbox, or handled after the clearing c, for the task
Waiting(task) ==
    \E i \in DOMAIN inbox :
        inbox[i].op = task.op /\ (inbox[i].arrayIndex # None) = task.hasIndex

HandledAfter(task, c) ==
    {j \in DOMAIN handled :
        /\ j > c /\ "op" \in DOMAIN handled[j]
        /\ handled[j].op = task.op /\ handled[j].hasIndex = task.hasIndex}

Logged(task) ==
    \E i \in DOMAIN eventLog :
        eventLog[i].op = task.op /\ (eventLog[i].arrayIndex # None) = task.hasIndex

\* C22: every analysis task that is scheduled when the log is cleared stays scheduled
\* until it runs and reaches the dispatch; when its Event is emitted the consumer
\* receives it after the clearing and, unless it is a presentation duplicate, keeps it
\* in the log; the log holds nothing but what was handled after the clearing.
C22_ClearCancelsNothing ==
    \A c \in DOMAIN handled :
        "pending" \in DOMAIN handled[c]
        => /\ \A task \in handled[c].pending :
                 /\ task \in PendingTasks \/ DispatchedSince(task, handled[c].t)
                 /\ \A i \in DOMAIN deliveries :
                       (/\ deliveries[i].op = task.op
                        /\ deliveries[i].hasIndex = task.hasIndex
                        /\ deliveries[i].emitted)
                       => \/ Waiting(task)
                          \/ \E j \in HandledAfter(task, c) :
                                handled[j].logged => Logged(task)
           /\ \A i \in DOMAIN eventLog :
                 \E j \in DOMAIN handled :
                    /\ j > c /\ handled[j].logged
                    /\ handled[j].op = eventLog[i].op
                    /\ handled[j].hasIndex = (eventLog[i].arrayIndex # None)

\* an Event was logged, the log was cleared while a task was pending, and the Event
\* of that task is now the only entry of the log
C22_Witness ==
    \E c \in DOMAIN handled :
        /\ "pending" \in DOMAIN handled[c]
        /\ \E j \in 1..(c - 1) : handled[j].logged
        /\ \E task \in handled[c].pending : Logged(task) /\ Len(eventLog) = 1

\* ---------------------------------------------------------------------------
\* C23: the event number of the overlay
\* ---------------------------------------------------------------------------
Reverse(s) == [i \in 1..Len(s) |-> s[Len(s) + 1 - i]]

\* renderEventHTML(event, index, totalLength): eventNumber = totalLength - 1 - index
eventNumber(index, totalLength) == totalLength - 1 - index

\* updateOverlay: allEvents = eventLog.slice().reverse(); the number shown for the
\* entry at position i of eventLog (index is 0-based in allEvents)
ShownNumber(i) ==
    LET allEvents == Reverse(eventLog)
        index == CHOOSE j \in 0..(Len(allEvents) - 1) : j = Len(eventLog) - i
    IN eventNumber(index, Len(allEvents))

\* C23: every Event of the log that carries the index of its _mtm entry is shown
\* with that index as its event number.
C23_NumberIsArrayIndex ==
    \A i \in DOMAIN eventLog :
        eventLog[i].arrayIndex # None => ShownNumber(i) = eventLog[i].arrayIndex[1]

\* ---------------------------------------------------------------------------
\* SpecCap: the consumer's log under a small configured maxEvents
\* ---------------------------------------------------------------------------
\* the values of the maxEvents setting (0: not set)
MaxEventsSettings == {0, 1, 2}

InitCap ==
    /\ now = StartTime
    /\ \E m \in MaxEventsSettings :
          CONFIG = [DefaultConfig(TRUE, FALSE) EXCEPT !.maxEvents = m]
    /\ globalProcessedEvents = <<>>
    /\ inbox = <<>>
    /\ deliveries = <<>>
    /\ recentEvents = <<>>
    /\ eventLog = <<>>
    /\ suppressedDuplicates = 0
    /\ handled = <<>>
    /\ MatomoTagManager = None
    /\ pageDataLayer = None
    /\ href = <<>>
    /\ analysed = <<>>
    /\ debugModeLog = NoDebugModeLog
    /\ InitWorker
    /\ pc = "loading"
    /\ heap = PageObjects
    /\ arrays = <<EmptyArray>>
    /\ window = [mtm |-> Some(1), dataLayer |-> None]
    /\ native = FALSE
    /\ closures = <<>>
    /\ timers = <<>>
    /\ scanned = FALSE
    /\ ops = <<>>

\* the user saves another maxEvents in the settings; the consumer reads it from
\* chrome.storage with the next notification
SettingsChange(m) ==
    /\ m # CONFIG.maxEvents
    /\ CONFIG' = [CONFIG EXCEPT !.maxEvents = m]
    /\ UNCHANGED <<now, dedupVars, consumerVars, matchVars, workerVars, interceptVars>>

NextCap ==
    \/ Startup
    \/ \E data \in ClearPushes : MtmPush(data)
    \/ RunAnalysisTask(Horizon)
    \/ CheckArrayChangesTick(Horizon)
    \/ matomoEventDetected
    \/ \E m \in MaxEventsSettings : SettingsChange(m)

SpecCap == InitCap /\ [][NextCap]_vars

\* the consumer has added the Event of this step to the log
EventLogged ==
    /\ Len(handled') = Len(handled) + 1
    /\ handled'[Len(handled')].logged

\* C24: whenever the consumer has handled an Event and added it to the log, the log
\* holds at most maxEvents entries (the configured value, 1000 when none is set).
C24_LogCapped == [][EventLogged => Len(eventLog') <= MaxEventsOf(CONFIG)]_vars

\* the log is full under a configured maxEvents and an older Event was dropped
C24_Witness ==
    /\ CONFIG.maxEvents # 0
    /\ Len(eventLog) = CONFIG.maxEvents
    /\ handled # <<>> /\ handled[Len(handled)].logged
    /\ Cardinality({j \in DOMAIN handled : handled[j].logged}) > Len(eventLog)

\* ---------------------------------------------------------------------------
\* C25: the periodic re-interception check and the wrappers of push
\* ---------------------------------------------------------------------------
\* the arrays whose push runs through at least one wrapper of the engine
WrappedArrays == {a \in DOMAIN arrays : arrays[a].wrappers # <<>>}

\* C25: a periodic re-interception check leaves the wrappers of every array whose
\* push is wrapped by the engine as they are.
C25_ReinterceptionIdempotent ==
    [][PeriodicTick(LongHorizon)
         => \A a \in WrappedArrays : arrays'[a].wrappers = arrays[a].wrappers]_vars

\* ---------------------------------------------------------------------------
\* C26: the outcomes of one startup
\* ---------------------------------------------------------------------------
\* C26: the timeout outcome is emitted only when no enableDebugMode() call of the
\* startup has succeeded: a success outcome and a timeout outcome never both occur.
C26_OutcomeUnique == debugModeLog.timeout > 0 => debugModeLog.success = 0

\* ---------------------------------------------------------------------------
\* SpecEvaluate: getVariableValue and evaluateCondition applied once to inputs drawn
\* from small sets, over the window.dataLayer backlogs of ResolveBacklogs
\* ---------------------------------------------------------------------------
S_d == <<"d">>
S_fortyTwo == <<"4", "2">>
S_fortyTwoA == <<"4", "2", "a">>
S_paren == <<"(">>
S_star == <<"*", "a">>

FooEntry(v) == Obj([foo |-> v])

ResolveBacklogs ==
    {None,
     Some([items |-> <<>>]),
     Some([items |-> <<FooEntry(Str(S_two))>>]),
     Some([items |-> <<FooEntry(Str(S_two)), FooEntry(Str(S_three))>>]),
     Some([items |-> <<FooEntry(Str(S_three)), Obj([bar |-> Str(S_x)])>>]),
     Some([items |-> <<FooEntry(Str(S_two)), FooEntry(Null)>>])}

\* eventInfo.dataLayerData: the flattened payload of the event
Payloads ==
    {<<>>, [foo |-> Str(S_one)], [foo |-> Num(0)], [foo |-> Null], [bar |-> Str(S_x)]}

DefaultValues == {Undefined, Str(S_d), Num(0), Str(<<>>), Bool(FALSE)}

VariableTypes == {"DataLayer", "Constant", "CustomJsFunction", "MetaContent"}

\* a Matomo variable; a DataLayer variable reads the name foo
Variable(type, defaultValue) ==
    IF type = "DataLayer"
    THEN [DataLayerVariable("foo", <<"foo">>) EXCEPT !.defaultValue = defaultValue]
    ELSE [type |-> type, defaultValue |-> defaultValue]

EventInfo(payload) == [eventName |-> Null, dataLayerData |-> payload, source |-> Str(S_dataLayer)]

InitEvaluate ==
    /\ now = StartTime
    /\ CONFIG = DefaultConfig(TRUE, TRUE)
    /\ globalProcessedEvents = <<>>
    /\ inbox = <<>>
    /\ deliveries = <<>>
    /\ recentEvents = <<>>
    /\ eventLog = <<>>
    /\ suppressedDuplicates = 0
    /\ handled = <<>>
    /\ MatomoTagManager = None
    /\ pageDataLayer \in ResolveBacklogs
    /\ href = S_shop
    /\ analysed = <<>>
    /\ debugModeLog = NoDebugModeLog
    /\ InitWorker
    /\ pc = "running"
    /\ heap = PageObjects
    /\ window = [mtm |-> None, dataLayer |-> None]
    /\ arrays = <<>>
    /\ native = FALSE
    /\ closures = <<>>
    /\ timers = <<>>
    /\ scanned = TRUE
    /\ ops = <<>>

\* one call getVariableValue(variable, eventInfo)
ResolveVariable(variable, payload) ==
    /\ analysed = <<>>
    /\ analysed' = <<[variable |-> variable, payload |-> payload,
                      value |-> getVariableValue(variable, EventInfo(payload), CurrentPage)]>>
    /\ UNCHANGED <<now, CONFIG, dedupVars, consumerVars, MatomoTagManager, pageDataLayer,
                   href, debugModeLog, workerVars>>
    /\ UNCHANGED interceptVars

Comparisons ==
    {"equals", "notEquals", "contains", "notContains", "startsWith", "endsWith",
     "matchesRegex", "greaterThan", "lessThan", "greaterThanOrEqualTo",
     "lessThanOrEqualTo"}

\* the operators of the conditions: the table of evaluateCondition and three others
Operators == Comparisons \cup {"Equals", "isOneOf", "undefined"}

ActualValues ==
    {Str(S_fortyTwo), Num(42), Str(S_fortyTwoA), Num(0), Str(<<>>), Bool(TRUE),
     Str(S_paren), Str(S_star), Undefined}

ExpectedValues ==
    {Num(42), Str(S_fortyTwo), Str(S_fortyTwoA), Str(<<>>), Num(0), Null, Bool(TRUE),
     Str(S_paren), Str(S_star), Undefined}

\* one call evaluateCondition(condition, eventInfo); the actual value is the one the
\* DataLayer variable foo resolves to from the payload {foo: actual}
EvaluateCondition(comparison, actual, expected) ==
    /\ analysed = <<>>
    /\ analysed' = <<[comparison |-> comparison,
                      actualValue |-> getVariableValue(DataLayerVariable("foo", <<"foo">>),
                                                       EventInfo([foo |-> actual]),
                                                       PageView(None, PageObjects, href)),
                      expected |-> expected,
                      result |-> evaluateCondition(
                                     Condition(DataLayerVariable("foo", <<"foo">>),
                                               comparison, expected),
                                     EventInfo([foo |-> actual]),
                                     PageView(None, PageObjects, href))]>>
    /\ UNCHANGED <<now, CONFIG, dedupVars, consumerVars, MatomoTagManager, pageDataLayer,
                   href, debugModeLog, workerVars>>
    /\ UNCHANGED interceptVars

NextEvaluate ==
    \/ \E type \in VariableTypes, d \in DefaultValues, payload \in Payloads :
          ResolveVariable(Variable(type, d), payload)
    \/ \E comparison \in Operators, actual \in ActualValues, expected \in ExpectedValues :
          EvaluateCondition(comparison, actual, expected)

SpecEvaluate == InitEvaluate /\ [][NextEvaluate]_vars

Resolved == {i \in DOMAIN analysed : "variable" \in DOMAIN analysed[i]}
Evaluated == {i \in DOMAIN analysed : "comparison" \in DOMAIN analysed[i]}

\* the entries of window.dataLayer that have the property foo, oldest first
EntriesWithFoo ==
    IF pageDataLayer = None THEN {}
    ELSE {i \in DOMAIN pageDataLayer[1].items :
             "foo" \in KeysOf(pageDataLayer[1].items[i], PageObjects)}

NewestWithFoo == CHOOSE i \in EntriesWithFoo : \A j \in EntriesWithFoo : j <= i

\* the value the stated resolution order gives a DataLayer variable
StatedValue(variable, payload) ==
    IF "foo" \in DOMAIN payload THEN payload.foo
    ELSE IF EntriesWithFoo # {}
         THEN Prop(pageDataLayer[1].items[NewestWithFoo], "foo", PageObjects)
    ELSE variable.defaultValue

\* C27: a DataLayer variable resolves to the value of the payload when the payload has
\* the name, otherwise to the value of the newest window.dataLayer entry that has the
\* name, otherwise to the variable's defaultValue.
C27_ResolutionOrder ==
    \A i \in Resolved :
        analysed[i].variable.type = "DataLayer"
        => analysed[i].value = StatedValue(analysed[i].variable, analysed[i].payload)

\* C28: a variable of type Constant, CustomJsFunction or of an unknown type resolves
\* to exactly its defaultValue.
C28_DefaultValueReturned ==
    \A i \in Resolved :
        analysed[i].variable.type # "DataLayer"
        => analysed[i].value = analysed[i].variable.defaultValue

\* the stated result of 'equals': numeric when the actual value is a number and the
\* expected value parses as a number, the comparison of the two strings otherwise
StatedEquals(actualValue, expected) ==
    IF IsNum(actualValue) /\ ToNumber(expected) # None
    THEN actualValue.num = ToNumber(expected)[1]
    ELSE JsString(actualValue) = JsString(expected)

\* C29: 'equals' is the numeric-aware equality and 'notEquals' is its negation, for
\* every pair of an actual and an expected value; the string '42' equals the number
\* 42 and the string '42a' does not.
C29_NumericAwareEquality ==
    \A i \in Evaluated :
        /\ analysed[i].comparison = "equals"
           => analysed[i].result = StatedEquals(analysed[i].actualValue, analysed[i].expected)
        /\ analysed[i].comparison = "notEquals"
           => analysed[i].result = ~StatedEquals(analysed[i].actualValue, analysed[i].expected)
        /\ (analysed[i].comparison = "equals" /\ analysed[i].expected = Num(42))
           => /\ analysed[i].actualValue = Str(S_fortyTwo) => analysed[i].result
              /\ analysed[i].actualValue = Str(S_fortyTwoA) => ~analysed[i].result

\* the number 0 was compared with the expected string '': equal as numbers, different
\* as strings
C29_Witness ==
    \E i \in Evaluated :
        /\ analysed[i].comparison = "equals"
        /\ analysed[i].actualValue = Num(0) /\ analysed[i].expected = Str(<<>>)
        /\ analysed[i].result

\* the patterns of ExpectedValues that new RegExp() rejects
InvalidPatterns == {Str(S_paren), Str(S_star)}

Swept(k, cache, cacheAfter) == k \in DOMAIN cache /\ k \notin DOMAIN cacheAfter

\* C31: a step that changes a dedup cache leaves no entry in it that is older than
\* the window of the cache, and an entry it removes is at least as old as the window,
\* so that no later delivery could have been suppressed by it.
C31_LazySweep ==
    [][/\ globalProcessedEvents' # globalProcessedEvents
          => /\ \A k \in DOMAIN globalProcessedEvents' :
                   now' - globalProcessedEvents'[k] <= GLOBAL_EVENTS
             /\ \A k \in DOMAIN globalProcessedEvents :
                   Swept(k, globalProcessedEvents, globalProcessedEvents')
                   => now' - globalProcessedEvents[k] >= GLOBAL_EVENTS
       /\ recentEvents' # recentEvents
          => /\ \A k \in DOMAIN recentEvents' :
                   now' - recentEvents'[k].timestamp <= DUPLICATE_TIMEOUT
             /\ \A k \in DOMAIN recentEvents :
                   Swept(k, recentEvents, recentEvents')
                   => now' - recentEvents[k].timestamp >= DUPLICATE_TIMEOUT]_vars

\* an emitted delivery has been swept from the global cache and a logged Event from
\* the presentation cache, by later inserts
C31_Witness ==
    /\ globalProcessedEvents # <<>>
    /\ recentEvents # <<>>
    /\ \E i \in DOMAIN deliveries :
          deliveries[i].emitted /\ deliveries[i].sig \notin DOMAIN globalProcessedEvents
    /\ \E j \in DOMAIN handled :
          handled[j].logged /\ handled[j].sig \notin DOMAIN recentEvents

\* ---------------------------------------------------------------------------
\* SpecSweep: the dispatch gate and the consumer over SweepTime milliseconds, long
\* enough for a cache entry to outlive its window by a cleanup period
\* ---------------------------------------------------------------------------
\* INTERVALS.CACHE_CLEANUP and PERFORMANCE.CLEANUP_INTERVAL: declared, read by no
\* setInterval of the engine or of the consumer
CACHE_CLEANUP == 5000
CLEANUP_INTERVAL == 5000

SweepTime == 7500

\* time passes while nothing is delivered
TimePasses ==
    /\ inbox = <<>>
    /\ now + TimeStep <= StartTime + SweepTime
    /\ now' = now + TimeStep
    /\ UNCHANGED <<CONFIG, dedupVars, consumerVars, matchVars, workerVars, interceptVars>>

NextSweep ==
    \/ \E data \in DedupEntries : DeliverPush(data)
    \/ matomoEventDetected
    \/ TimePasses

SpecSweep == InitDedup /\ [][NextSweep]_vars

\* C32: the periodic cleanup evicts every cache entry within one cleanup period
\* after the entry's window has passed, whether or not anything is inserted.
C32_PeriodicCleanup ==
    /\ \A k \in DOMAIN globalProcessedEvents :
          now - globalProcessedEvents[k] <= GLOBAL_EVENTS + CACHE_CLEANUP
    /\ \A k \in DOMAIN recentEvents :
          now - recentEvents[k].timestamp <= DUPLICATE_TIMEOUT + CLEANUP_INTERVAL

\* ---------------------------------------------------------------------------
\* C33: the order of the consumer's log
\* ---------------------------------------------------------------------------
\* C33: the event log is sorted by non-decreasing timestamp after every handled
\* delivery, in whatever order historical and live Events were delivered.
C33_LogSorted ==
    \A i \in DOMAIN eventLog : \A j \in DOMAIN eventLog :
        i < j => eventLog[i].timestamp <= eventLog[j].timestamp

\* an Event delivered later stands before an Event delivered earlier
C33_Witness ==
    \E i \in DOMAIN eventLog : \E j \in DOMAIN eventLog :
        /\ i < j
        /\ eventLog[i].op > eventLog[j].op
        /\ eventLog[i].timestamp < eventLog[j].timestamp

\* ---------------------------------------------------------------------------
\* C34: the recognition of dataLayer entries
\* ---------------------------------------------------------------------------
\* the stated recognition patterns: event starting with 'mtm.', event 'mtm', event
\* containing 'CustomEvent', an mtm alias field, or the pair aMTMts + aMTMparams
StatedPattern(data, h) ==
    /\ Truthy(data) /\ IsObjectLike(data)
    /\ \/ /\ IsStr(Get(data, "event", h))
          /\ \/ StartsWith(Get(data, "event", h).str, S_mtmDot)
             \/ Get(data, "event", h) = Str(S_mtm)
             \/ Includes(Get(data, "event", h).str, S_CustomEvent)
       \/ Truthy(Get(data, "mtm.customEvent", h))
       \/ "mtm" \in DOMAIN Fields(data, h)
       \/ ("aMTMts" \in DOMAIN Fields(data, h) /\ "aMTMparams" \in DOMAIN Fields(data, h))

\* the page operation k is a call of the wrapped dataLayer.push with an unflagged
\* entry while watchDataLayer is enabled, and its analysis has had its 50 ms
LiveDataLayerPush(k) ==
    /\ ops[k].kind = "push" /\ ops[k].target = "dataLayer"
    /\ ops[k].running /\ ops[k].watchDataLayer
    /\ ops[k].wrappers # <<>>
    /\ ~ops[k].flagged /\ SoleEntry(k)
    /\ now >= ops[k].t + ANALYSIS_DELAY /\ ~TasksPending(k)
    /\ OwnSignatures(k)

SignatureEntries ==
    {Ref(1), Ref(2), Ref(3), Ref(4), Ref(5), Ref(6), Ref(7), Str(S_s), Str(<<>>), Num(0)}

\* analyzeMTMDirectPushWithTimestamp(objectName, entry, timestamp, true, index), called
\* by the scan of monitorExistingArrays
DeliverBacklogEntry(data, index) ==
    /\ deliveries = <<>>
    /\ analysed' = <<[entry |-> data, index |-> index]>>
    /\ SetDedupState(dispatchMatomoEventWithTimestamp(DedupState,
            historicalEventData(S_mtm, data, TRUE, Some(index), PageObjects) @@ [op |-> 1],
            now - HISTORICAL_OFFSET, now, PageObjects))
    /\ UNCHANGED <<now, CONFIG, consumerVars, MatomoTagManager, pageDataLayer, href,
                   debugModeLog, workerVars>>
    /\ UNCHANGED interceptVars

\* a live delivery of the same entry, built by analyzeMTMDirectPush (the wrapper of
\* interceptWindowMTM, checkArrayChanges) or by analyzeMTMPush (the wrapper of
\* interceptMTMPush); flagged: the entry carries __mtm_processed by then
LiveEventData(builder, data, index, h) ==
    IF builder = "analyzeMTMDirectPush"
    THEN createMTMEventData(S_mtm, data, Some(index), h) @@ [op |-> 2]
    ELSE analyzeMTMPushEventData(S_mtm, data, h) @@ [op |-> 3]

DeliverLiveEntry(builder, flagged) ==
    /\ Len(deliveries) = 1
    /\ SetDedupState(dispatchMatomoEvent(DedupState,
            LiveEventData(builder, analysed[1].entry, analysed[1].index,
                          IF flagged THEN FlaggedObjects ELSE PageObjects),
            now, IF flagged THEN FlaggedObjects ELSE PageObjects))
    /\ UNCHANGED <<now, CONFIG, consumerVars, matchVars, workerVars, interceptVars>>

InitSignature == InitDedup /\ CONFIG = DefaultConfig(TRUE, FALSE)

NextSignature ==
    \/ \E data \in SignatureEntries, index \in 0..1 : DeliverBacklogEntry(data, index)
    \/ \E builder \in {"analyzeMTMDirectPush", "analyzeMTMPush"}, flagged \in BOOLEAN :
            DeliverLiveEntry(builder, flagged)
    \/ matomoEventDetected
    \/ AdvanceTime

SpecSignature == InitSignature /\ [][NextSignature]_vars

\* the historical delivery and a live delivery built by analyzeMTMDirectPush have the
\* same signature, and the live one is dropped inside the window
DirectPushSignatureNormalised ==
    (Len(deliveries) = 2 /\ deliveries[2].op = 2)
    => /\ deliveries[1].sig = deliveries[2].sig
       /\ deliveries[2].t - deliveries[1].t < GLOBAL_EVENTS => ~deliveries[2].emitted

MaxVariables == 3

S_ErrorPrefix == <<"E", "r", "r", "o", "r", ":", " ">>
S_undefined == <<"u", "n", "d", "e", "f", "i", "n", "e", "d">>
S_matomo == <<"m", "a", "t", "o", "m", "o">>
S_boom == <<"b", "o", "o", "m">>
S_getNotAvailable ==
    <<"g", "e", "t", "(", ")", " ", "m", "e", "t", "h", "o", "d", " ", "n", "o", "t", " ",
      "a", "v", "a", "i", "l", "a", "b", "l", "e">>

\* String.prototype.toLowerCase on the letters the names use
LowerChar(c) == IF c = "M" THEN "m" ELSE IF c = "V" THEN "v" ELSE c
ToLowerCase(s) == [i \in DOMAIN s |-> LowerChar(s[i])]

\* what a call of variable.get() does
Returns(v) == [returns |-> v]
Throws(v) == [throws |-> v]

\* new Error(message), as far as the catch block reads it
ErrorObject(message) == Obj([message |-> Str(message)])

VariableKinds ==
    {"returns", "throwsError", "throwsString", "throwsNull", "throwsUndefined", "noGet",
     "matomo", "matomoDataLayer", "null"}

\* the i-th variable of a container, of the given kind
VariableOf(kind, i) ==
    LET named == [name |-> Str(<<"V">> \o DigitsOf(i)), type |-> "CustomJsFunction"]
    IN CASE kind = "returns" -> named @@ [get |-> Returns(Str(S_one))]
         [] kind = "throwsError" -> named @@ [get |-> Throws(ErrorObject(S_boom))]
         [] kind = "throwsString" -> named @@ [get |-> Throws(Str(S_boom))]
         [] kind = "throwsNull" -> named @@ [get |-> Throws(Null)]
         [] kind = "throwsUndefined" -> named @@ [get |-> Throws(Undefined)]
         [] kind = "noGet" -> named
         [] kind = "matomo" ->
                [name |-> Str(<<"M", "a", "t", "o", "m", "o">> \o DigitsOf(i)),
                 type |-> "MatomoConfiguration", get |-> Throws(Null)]
         [] kind = "matomoDataLayer" ->
                named @@ [get |-> Throws(Null),
                          parameters |-> [dataLayerName |-> Str(<<"_">> \o S_matomo)]]
         [] OTHER -> Null

VariableLists == UNION {[1..n -> VariableKinds] : n \in 1..MaxVariables}

\* window.MatomoTagManager of a page whose first container has variables
VariableManagers ==
    {Some([containers |->
            <<Container(<<Trigger(2, TRUE, <<cEventA>>, TRUE)>>, TRUE)
              @@ [variables |-> [i \in DOMAIN kinds |-> VariableOf(kinds[i], i)]]>>]) :
        kinds \in VariableLists}
    \cup {None, Some([containers |-> <<>>]),
          Some([containers |-> <<Container(<<>>, TRUE)>>])}

\* the filter of Matomo configuration variables
IsMatomoConfig(variable) ==
    \/ Includes(ToLowerCase(variable.name.str), S_matomo)
    \/ /\ "parameters" \in DOMAIN variable
       /\ Includes(ToLowerCase(variable.parameters.dataLayerName.str), S_matomo)

\* the callback of liveContainer.variables.forEach returns without an entry
IsSkippedVariable(variable) ==
    IsNull(variable) \/ ~Truthy(variable.name) \/ IsMatomoConfig(variable)

\* error.message in the catch block: a TypeError for a thrown null or undefined
CatchRaises(variable) ==
    /\ "get" \in DOMAIN variable
    /\ "throws" \in DOMAIN variable.get
    /\ (IsNull(variable.get.throws) \/ IsUndef(variable.get.throws))

MessageOf(thrown) ==
    IF IsObj(thrown) /\ "message" \in DOMAIN thrown.obj THEN JsString(thrown.obj.message)
    ELSE S_undefined

\* currentValue after the try/catch around variable.get()
CurrentValue(variable) ==
    IF "get" \notin DOMAIN variable THEN Str(S_getNotAvailable)
    ELSE IF "returns" \in DOMAIN variable.get THEN variable.get.returns
    ELSE Str(S_ErrorPrefix \o MessageOf(variable.get.throws))

ResolvedEntry(variable) ==
    [currentValue |-> CurrentValue(variable),
     defaultValue |-> Null,
     dataLayerName |-> IF "parameters" \in DOMAIN variable
                       THEN variable.parameters.dataLayerName ELSE Null,
     type |-> variable.type]

\* the index at which the forEach over the variables ends with an exception
\* (0: it runs to its end)
AbortIndex(variables) ==
    LET raising == {i \in DOMAIN variables :
                        ~IsSkippedVariable(variables[i]) /\ CatchRaises(variables[i])}
    IN IF raising = {} THEN 0 ELSE CHOOSE i \in raising : \A j \in raising : i <= j

\* containerInfo[0].resolvedVariables after the forEach over the first n variables
ResolvedVariables(variables, n) ==
    LET resolved == {i \in 1..n : ~IsSkippedVariable(variables[i])}
        LastOf(name) == CHOOSE i \in resolved :
                            /\ variables[i].name.str = name
                            /\ \A j \in resolved : variables[j].name.str = name => j <= i
    IN [name \in {variables[i].name.str : i \in resolved} |->
            ResolvedEntry(variables[LastOf(name)])]

\* getMTMContainerInfo(), as far as the variables go
getMTMContainerInfo(manager) ==
    IF manager = None THEN <<>>
    ELSE [i \in DOMAIN manager[1].containers |->
            [variables |-> IF "variables" \in DOMAIN manager[1].containers[i]
                           THEN manager[1].containers[i].variables ELSE <<>>]]

HasVariables(manager) ==
    /\ manager # None
    /\ manager[1].containers # <<>>
    /\ "variables" \in DOMAIN manager[1].containers[1]

\* addContainerInfoDelayed(eventData) raises
addContainerInfoDelayedRaises(manager) ==
    HasVariables(manager) /\ AbortIndex(manager[1].containers[1].variables) # 0

\* addContainerInfoDelayed(eventData): eventData after a call that returns
addContainerInfoDelayed(eventData, manager) ==
    LET containerInfo == getMTMContainerInfo(manager)
    IN IF containerInfo = <<>> THEN eventData
       ELSE IF ~HasVariables(manager) THEN eventData @@ [containerInfo |-> containerInfo]
       ELSE eventData @@
            [containerInfo |->
                [containerInfo EXCEPT ![1] = @ @@
                    [resolvedVariables |->
                        ResolvedVariables(manager[1].containers[1].variables,
                                          Len(manager[1].containers[1].variables))]]]

InitContainerInfo ==
    /\ now = StartTime
    /\ CONFIG = DefaultConfig(TRUE, FALSE)
    /\ globalProcessedEvents = <<>>
    /\ inbox = <<>>
    /\ deliveries = <<>>
    /\ recentEvents = <<>>
    /\ eventLog = <<>>
    /\ suppressedDuplicates = 0
    /\ handled = <<>>
    /\ MatomoTagManager \in VariableManagers
    /\ pageDataLayer = None
    /\ href = S_shop
    /\ analysed = <<>>
    /\ debugModeLog = NoDebugModeLog
    /\ InitWorker
    /\ pc = "running"
    /\ heap = PageObjects
    /\ window = [mtm |-> None, dataLayer |-> None]
    /\ arrays = <<>>
    /\ native = FALSE
    /\ closures = <<>>
    /\ timers = <<>>
    /\ scanned = TRUE
    /\ ops = <<>>

\* the delayed task of analyzeMTMPush for one pushed entry: addTriggerAnalysis,
\* addContainerInfoDelayed, dispatchMatomoEvent; an exception ends the task
AnalysePushedEntry(data) ==
    /\ analysed = <<>>
    /\ ~addTriggerAnalysisRaises(MatomoTagManager)
    /\ IF addContainerInfoDelayedRaises(MatomoTagManager)
       THEN /\ analysed' = <<[manager |-> MatomoTagManager, raised |-> TRUE]>>
            /\ UNCHANGED dedupVars
       ELSE /\ analysed' =
                <<[manager |-> MatomoTagManager, raised |-> FALSE,
                   event |-> addContainerInfoDelayed(
                                addTriggerAnalysis(analyzeMTMPushEventData(S_mtm, data,
                                                                           PageObjects),
                                                   MatomoTagManager, CurrentPage, now),
                                MatomoTagManager)]>>
            /\ SetDedupState(dispatchMatomoEvent(DedupState,
                    addContainerInfoDelayed(
                        addTriggerAnalysis(analyzeMTMPushEventData(S_mtm, data, PageObjects),
                                           MatomoTagManager, CurrentPage, now),
                        MatomoTagManager) @@ [op |-> 1],
                    now, PageObjects))
    /\ UNCHANGED <<now, CONFIG, consumerVars, MatomoTagManager, pageDataLayer, href,
                   debugModeLog, workerVars>>
    /\ UNCHANGED interceptVars

NextContainerInfo ==
    \/ \E data \in MatchEntries : AnalysePushedEntry(data)
    \/ matomoEventDetected

SpecContainerInfo == InitContainerInfo /\ [][NextContainerInfo]_vars

\* the variables of the container of an analysis whose get() throws
ThrowingVariables(r) ==
    IF ~HasVariables(r.manager) THEN {}
    ELSE {i \in DOMAIN r.manager[1].containers[1].variables :
            LET variable == r.manager[1].containers[1].variables[i]
            IN /\ ~IsSkippedVariable(variable)
               /\ "get" \in DOMAIN variable
               /\ "throws" \in DOMAIN variable.get}

IsErrorDescriptor(v) == IsStr(v) /\ StartsWith(v.str, S_ErrorPrefix)

\* the event is emitted with an error descriptor for every throwing variable of
\* the set and an entry for every other variable that is not filtered out
Recovered(r, throwing) ==
    throwing # {} =>
        /\ ~r.raised
        /\ Len(deliveries) = 1 /\ deliveries[1].emitted
        /\ LET variables == r.manager[1].containers[1].variables
               resolved == r.event.containerInfo[1].resolvedVariables
           IN /\ \A i \in throwing :
                    IsErrorDescriptor(resolved[variables[i].name.str].currentValue)
              /\ \A j \in DOMAIN variables :
                    ~IsSkippedVariable(variables[j]) =>
                        /\ variables[j].name.str \in DOMAIN resolved
                        /\ resolved[variables[j].name.str] = ResolvedEntry(variables[j])

\* recovery when no get() of the container throws null or undefined
RecoveredFromErrors ==
    \A n \in DOMAIN analysed :
        (\A i \in ThrowingVariables(analysed[n]) :
            ~CatchRaises(analysed[n].manager[1].containers[1].variables[i]))
        => Recovered(analysed[n], ThrowingVariables(analysed[n]))

MaxMessages == 3
MaxTabEvents == 2

Tabs == {1, 2}

WorkerState == [badgeCounters |-> badgeCounters, badgeText |-> badgeText,
                tabQueries |-> tabQueries]

SetWorkerState(w) ==
    /\ badgeCounters' = w.badgeCounters
    /\ badgeText' = w.badgeText
    /\ tabQueries' = w.tabQueries

\* count > 0 ? count.toString() : ''
BadgeTextOf(count) == IF count > 0 THEN DigitsOf(count) ELSE <<>>

\* updateBadgeForTab(tabId, count) up to the call of chrome.tabs.query
updateBadgeForTab(w, tabId, count) ==
    [w EXCEPT !.badgeCounters = (tabId :> count) @@ @,
              !.tabQueries = Append(@, [tabId |-> tabId, count |-> count])]

\* clearBadgeForTab that forgets the counters of all tabs
clearBadgeForAllTabs(w, tabId) ==
    [w EXCEPT !.badgeCounters = <<>>,
              !.badgeText = (tabId :> <<>>) @@ @]

\* clearBadgeForTab(tabId)
clearBadgeForTab(w, tabId) ==
    [w EXCEPT !.badgeCounters = DropKeys(@, {tabId}),
              !.badgeText = (tabId :> <<>>) @@ @]

\* updateBadgeForActiveTab(tabId)
updateBadgeForActiveTab(w, tabId) ==
    [w EXCEPT !.badgeText =
        (tabId :> BadgeTextOf(IF tabId \in DOMAIN w.badgeCounters
                              THEN w.badgeCounters[tabId] ELSE 0)) @@ @]

\* the callback of chrome.tabs.query in updateBadgeForTab, tabs[0].id being active
tabsQueried(w, query, active) ==
    IF active = query.tabId
    THEN [w EXCEPT !.badgeText = (query.tabId :> BadgeTextOf(query.count)) @@ @]
    ELSE w

\* the chrome.runtime.onMessage listener: the worker after the message and the
\* response sent; sender is None when sender.tab is undefined
onMessage(w, sender, message) ==
    IF sender = None
    THEN [w |-> w, response |-> [success |-> FALSE]]
    ELSE IF message.type = "updateBadge"
    THEN [w |-> updateBadgeForTab(w, sender[1], message.count),
          response |-> [success |-> TRUE]]
    ELSE IF message.type = "clearBadge"
    THEN [w |-> clearBadgeForTab(w, sender[1]), response |-> [success |-> TRUE]]
    ELSE [w |-> w, response |-> [success |-> FALSE]]

Handled(w, sender, message) ==
    [sender |-> sender, message |-> message,
     response |-> onMessage(w, sender, message).response,
     before |-> w.badgeCounters,
     after |-> onMessage(w, sender, message).w.badgeCounters]

\* a message reaches the service worker
OnMessage(sender, message) ==
    /\ Len(responses) < MaxMessages
    /\ SetWorkerState(onMessage(WorkerState, sender, message).w)
    /\ responses' = Append(responses, Handled(WorkerState, sender, message))
    /\ UNCHANGED <<activeTab, tabEvents>>
    /\ UNCHANGED <<now, CONFIG, dedupVars, consumerVars, matchVars, interceptVars>>

\* the oldest pending chrome.tabs.query calls back
TabQueryCallback ==
    /\ tabQueries # <<>>
    /\ SetWorkerState(tabsQueried([WorkerState EXCEPT !.tabQueries = Tail(@)],
                                  Head(tabQueries), activeTab))
    /\ UNCHANGED <<activeTab, responses, tabEvents>>
    /\ UNCHANGED <<now, CONFIG, dedupVars, consumerVars, matchVars, interceptVars>>

\* chrome.tabs.onActivated: the user switches to tab t
TabActivated(t) ==
    /\ t # activeTab
    /\ activeTab' = t
    /\ SetWorkerState(updateBadgeForActiveTab(WorkerState, t))
    /\ UNCHANGED <<responses, tabEvents>>
    /\ UNCHANGED <<now, CONFIG, dedupVars, consumerVars, matchVars, interceptVars>>

SenderPool == {None} \cup {Some(t) : t \in Tabs}

MessagePool ==
    {[type |-> "updateBadge", count |-> c] : c \in 0..MaxTabEvents}
    \cup {[type |-> "clearBadge"], [type |-> "getConfig"]}

NextBadgeMessages ==
    \/ \E sender \in SenderPool, message \in MessagePool : OnMessage(sender, message)
    \/ TabQueryCallback
    \/ \E t \in Tabs : TabActivated(t)

SpecBadgeMessages == InitDedup /\ [][NextBadgeMessages]_vars

\* C37: a message without a sender tab or of a type other than 'updateBadge' and
\* 'clearBadge' is answered with success false and leaves badgeCounters as they were;
\* 'updateBadge' from tab T sets T's counter and no other, 'clearBadge' from tab T
\* removes T's counter and no other.
C37_BadgeMessageHandling ==
    \A i \in DOMAIN responses :
        LET r == responses[i]
        IN IF r.sender = None \/ r.message.type \notin {"updateBadge", "clearBadge"}
           THEN ~r.response.success /\ r.after = r.before
           ELSE IF r.message.type = "updateBadge"
           THEN /\ r.after = (r.sender[1] :> r.message.count) @@ r.before
                /\ \A t \in DOMAIN r.before \ {r.sender[1]} : r.after[t] = r.before[t]
           ELSE r.after = DropKeys(r.before, {r.sender[1]})

\* with the counters of both tabs set, a clearBadge from tab 1 removed the counter of
\* tab 1 and kept the counter of tab 2
C37_Witness ==
    \E j \in DOMAIN responses :
        /\ responses[j].message.type = "clearBadge"
        /\ responses[j].sender = Some(1)
        /\ responses[j].response.success
        /\ DOMAIN responses[j].before = {1, 2}
        /\ DOMAIN responses[j].after = {2}

\* a message of an unknown type from a tab and a message without a sender tab were
\* refused while a counter was set
Refused ==
    \E i, j \in DOMAIN responses :
        /\ responses[i].message.type = "getConfig" /\ responses[i].sender # None
        /\ responses[j].message.type = "updateBadge" /\ responses[j].sender = None
        /\ responses[i].before # <<>> /\ responses[j].before # <<>>

\* ---------------------------------------------------------------------------
\* SpecBadge: the badge under the messages of the content scripts, navigation, tab
\* switches and the callbacks of chrome.tabs.query (in the order of the queries)
\* ---------------------------------------------------------------------------
EventsIn(t) == IF t \in DOMAIN tabEvents THEN tabEvents[t] ELSE 0

\* the content script of tab t has logged an event and calls updateBadgeCounter()
UpdateBadgeCounter(t) ==
    /\ EventsIn(t) < MaxTabEvents
    /\ Len(responses) < MaxMessages
    /\ tabEvents' = (t :> EventsIn(t) + 1) @@ tabEvents
    /\ SetWorkerState(onMessage(WorkerState, Some(t),
                                [type |-> "updateBadge", count |-> EventsIn(t) + 1]).w)
    /\ responses' = Append(responses,
            Handled(WorkerState, Some(t), [type |-> "updateBadge", count |-> EventsIn(t) + 1]))
    /\ UNCHANGED activeTab
    /\ UNCHANGED <<now, CONFIG, dedupVars, consumerVars, matchVars, interceptVars>>

\* the worker after the two messages of clearEvents() in tab t: updateBadgeCounter()
\* with an empty log, then 'clearBadge'
AfterClearEvents(w, t) ==
    onMessage(onMessage(w, Some(t), [type |-> "updateBadge", count |-> 0]).w,
              Some(t), [type |-> "clearBadge"]).w

\* clearEvents() in the content script of tab t
ClearEventsInTab(t) ==
    /\ EventsIn(t) > 0
    /\ Len(responses) + 2 <= MaxMessages
    /\ tabEvents' = (t :> 0) @@ tabEvents
    /\ SetWorkerState(AfterClearEvents(WorkerState, t))
    /\ responses' = responses \o
            <<Handled(WorkerState, Some(t), [type |-> "updateBadge", count |-> 0]),
              Handled(onMessage(WorkerState, Some(t),
                                [type |-> "updateBadge", count |-> 0]).w,
                      Some(t), [type |-> "clearBadge"])>>
    /\ UNCHANGED activeTab
    /\ UNCHANGED <<now, CONFIG, dedupVars, consumerVars, matchVars, interceptVars>>

\* chrome.tabs.onUpdated with status 'loading' and a url: tab t loads a new page,
\* whose content script starts with an empty log
Navigation(t) ==
    /\ t \in DOMAIN tabEvents
    /\ tabEvents' = DropKeys(tabEvents, {t})
    /\ SetWorkerState(clearBadgeForTab(WorkerState, t))
    /\ UNCHANGED <<activeTab, responses>>
    /\ UNCHANGED <<now, CONFIG, dedupVars, consumerVars, matchVars, interceptVars>>

NextBadge ==
    \/ \E t \in Tabs : UpdateBadgeCounter(t)
    \/ \E t \in Tabs : ClearEventsInTab(t)
    \/ \E t \in Tabs : Navigation(t)
    \/ \E t \in Tabs : TabActivated(t)
    \/ TabQueryCallback

SpecBadge == InitDedup /\ [][NextBadge]_vars

\* the badge text chrome shows for tab t
ShownBadge(t) == IF t \in DOMAIN badgeText THEN badgeText[t] ELSE <<>>

StoredCounter(t) == IF t \in DOMAIN badgeCounters THEN badgeCounters[t] ELSE 0

\* C38: when no tab query is pending, the badge text of the active tab is the text of
\* that tab's stored counter, empty for a counter that is 0 or absent.
C38_BadgeConsistent ==
    tabQueries = <<>> => ShownBadge(activeTab) = BadgeTextOf(StoredCounter(activeTab))

\* the notification carries the flag and the flag is true
FlagSet(ev, flag) == flag \in DOMAIN ev /\ ev[flag]

Consistent(ev) ==
    LET listed == ev.triggerAnalysis.triggeredTriggers
        fired == ev.triggerAnalysis.firedTags
    IN /\ \A k \in DOMAIN fired :
            \E j \in DOMAIN listed : listed[j].name = fired[k].trigger
       /\ \A j \in DOMAIN listed :
            \A c \in DOMAIN listed[j].matchedConditions :
                listed[j].matchedConditions[c].matched
       /\ FlagSet(ev, "hasTriggeredTriggers") <=> listed # <<>>
       /\ FlagSet(ev, "hasFiredTags") <=> fired # <<>>

\* C39: in every emitted event each firedTags entry names a trigger listed in
\* triggeredTriggers, every matchedConditions entry of a listed trigger has matched
\* true, and hasTriggeredTriggers / hasFiredTags are true exactly when their list is
\* not empty.
C39_AnalysisConsistent ==
    \A i \in DOMAIN inbox : "triggerAnalysis" \in DOMAIN inbox[i] => Consistent(inbox[i])

\* an event was emitted with a fired tag and a listed trigger of two conditions
C39_Witness ==
    \E i \in DOMAIN inbox :
        /\ "triggerAnalysis" \in DOMAIN inbox[i]
        /\ inbox[i].triggerAnalysis.firedTags # <<>>
        /\ \E j \in DOMAIN inbox[i].triggerAnalysis.triggeredTriggers :
              Len(inbox[i].triggerAnalysis.triggeredTriggers[j].matchedConditions) = 2

\* the emitted deliveries of signature sig among the first n deliveries
EmittedBefore(sig, n) ==
    {i \in 1..n : deliveries[i].sig = sig /\ deliveries[i].emitted}

LastEmitted(sig, n) ==
    CHOOSE i \in EmittedBefore(sig, n) : \A k \in EmittedBefore(sig, n) : k <= i

\* C40: the window of the global cache starts at the last emitted delivery: the cache
\* entry of a signature holds the time of its last emitted delivery, whatever was
\* dropped since, and a delivery that comes 1000 ms or more after the last emitted one
\* of its signature is emitted.
C40_WindowAnchoredAtLastEmitted ==
    /\ \A sig \in DOMAIN globalProcessedEvents :
          /\ EmittedBefore(sig, Len(deliveries)) # {}
          /\ globalProcessedEvents[sig]
                = deliveries[LastEmitted(sig, Len(deliveries))].t
    /\ \A j \in DOMAIN deliveries :
          (/\ EmittedBefore(deliveries[j].sig, j - 1) # {}
           /\ deliveries[j].t - deliveries[LastEmitted(deliveries[j].sig, j - 1)].t
                >= GLOBAL_EVENTS)
          => deliveries[j].emitted

\* a delivery was emitted, the same one was dropped 500 ms later and emitted again
\* 1000 ms after the first
C40_Witness ==
    /\ Len(deliveries) = 3
    /\ deliveries[2].sig = deliveries[1].sig /\ deliveries[3].sig = deliveries[1].sig
    /\ deliveries[1].emitted /\ ~deliveries[2].emitted /\ deliveries[3].emitted
    /\ deliveries[2].t > deliveries[1].t
    /\ deliveries[3].t = deliveries[1].t + GLOBAL_EVENTS

====
